---- MODULE Spec2Model ----
(***************************************************************************)
(* Session orchestration of the ADT chat editor: one chat session driven   *)
(* turn by turn through the LangGraph workflow (plan -> show plan ->       *)
(* confirm -> execute steps -> finalize), wrapped by a checkpoint load     *)
(* before and a checkpoint save after every turn.                          *)
(***************************************************************************)
EXTENDS Integers, Sequences, FiniteSets, TLC

(***************************************************************************)
(* Bounds of the model.                                                    *)
(***************************************************************************)
MaxTurns == 3
MaxRestarts == 1
\* commits in the repository
MaxCommits == 4
\* contents 0..MaxTree a person may give the files
MaxTree == 1
\* subprocesses the environment makes fail within one request
MaxFaults == 1

(***************************************************************************)
(* Program constants.                                                      *)
(***************************************************************************)
\* actions.py:167  `while retries < 3`
PlannerMaxAttempts == 3

(***************************************************************************)
(* Messages.  In memory a message is an object of one of three LangChain   *)
(* classes; in a checkpoint file it is a {type, content} dictionary.       *)
(***************************************************************************)
HumanMessage(c) == [cls |-> "HumanMessage", content |-> c]

AIMessage(c) == [cls |-> "AIMessage", content |-> c]

SystemMessage(c) == [cls |-> "SystemMessage", content |-> c]

\* what the user can type in a turn
UserMessages == {"edit the text", "looks good"}

(***************************************************************************)
(* Steps.  An agent name is a sequence of tokens so that the router's      *)
(* lstrip("- ") and substring test are computed, not assumed.              *)
(***************************************************************************)
TextEditName == <<"Text Edit Agent">>

LayoutEditName == <<"-", "Layout Edit Agent">>

WebDeleteName == <<"Web Delete Agent">>

AssetTransferName == <<"Asset Transfer Agent">>

PlanningStep(instr, agentName, files) ==
    [step |-> instr, agent |-> agentName, html_files |-> files, status |-> "PENDING",
     text_edits |-> "None"]

\* the Step lists a Planner response can carry
EmptyPlan == << >>

PlanText == << PlanningStep("fix wording", TextEditName, {"a.html"}) >>

PlanTextDelete == << PlanningStep("fix wording", TextEditName, {"a.html"}),
                     PlanningStep("delete page", WebDeleteName, {"b.html"}) >>

PlanDeleteAsset == << PlanningStep("delete page", WebDeleteName, {"b.html"}),
                      PlanningStep("move image", AssetTransferName, {"a.html", "b.html"}) >>

PlanSet == {EmptyPlan, PlanText, PlanTextDelete, PlanDeleteAsset}

(***************************************************************************)
(* Planner model responses: the text returned by the model either parses   *)
(* into an OrchestratorPlanningOutput or makes the parser raise.           *)
(***************************************************************************)
\* structs/planning.py:16-21; a flagged output may still carry Steps
ParsedOutputs ==
    [parses : {TRUE}, is_irrelevant : {FALSE}, is_forbidden : {FALSE},
     steps : PlanSet, modified : BOOLEAN]
    \cup [parses : {TRUE}, is_irrelevant : {TRUE}, is_forbidden : {FALSE},
          steps : {EmptyPlan, PlanText}, modified : {FALSE}]
    \cup [parses : {TRUE}, is_irrelevant : {FALSE}, is_forbidden : {TRUE},
          steps : {EmptyPlan}, modified : {FALSE}]

MalformedOutput ==
    [parses |-> FALSE, is_irrelevant |-> FALSE, is_forbidden |-> FALSE,
     steps |-> EmptyPlan, modified |-> FALSE]

ModelResponses == ParsedOutputs \cup {MalformedOutput}

(***************************************************************************)
(* Checkpoint (de)serialisation.                                           *)
(***************************************************************************)
\* variant: the AIMessage case is missing, agent messages are tagged "system"
MessageTypeTagNoAi(m) ==
    IF m.cls = "HumanMessage" THEN "human" ELSE "system"

\* state_loader.py:174-184 / chat.py:25-37: class -> type tag
MessageTypeTag(m) ==
    IF m.cls = "HumanMessage" THEN "human"
    ELSE IF m.cls = "AIMessage" THEN "ai" ELSE "system"

SerializeMessages(msgs) ==
    [i \in 1..Len(msgs) |-> [type |-> MessageTypeTag(msgs[i]), content |-> msgs[i].content]]

\* state_loader.py:196-203 / chat.py:40-47: type tag -> class
MessageClassOfTag(t) ==
    CASE t = "human" -> "HumanMessage"
      [] t = "ai" -> "AIMessage"
      [] t = "system" -> "SystemMessage"

DeserializeMessages(data) ==
    [i \in 1..Len(data) |-> [cls |-> MessageClassOfTag(data[i].type), content |-> data[i].content]]

\* status.py:26-37: an enum member and the value written to JSON for it
EnumValue(member) ==
    CASE member = "PENDING" -> "pending"
      [] member = "IN_PROGRESS" -> "in_progress"
      [] member = "WAITING_FOR_USER_INPUT" -> "waiting_for_user_input"
      [] member = "SUCCESS" -> "success"
      [] member = "FAILURE" -> "failure"

EnumMember(value) ==
    CASE value = "pending" -> "PENDING"
      [] value = "in_progress" -> "IN_PROGRESS"
      [] value = "waiting_for_user_input" -> "WAITING_FOR_USER_INPUT"
      [] value = "success" -> "SUCCESS"
      [] value = "failure" -> "FAILURE"

\* model_dump(mode="json") of a list of PlanningStep
DumpSteps(ss) == [i \in 1..Len(ss) |-> [ss[i] EXCEPT !.status = EnumValue(@)]]

\* ADTState(**state_dict): pydantic validation of the dumped steps
ParseSteps(ds) == [i \in 1..Len(ds) |-> [ds[i] EXCEPT !.status = EnumMember(@)]]

\* state.py:35-55: a Session as the workflow holds it in memory
ADTState(m, uq, st, ss, idx, cs, pa, psu, irr, forb) ==
    [messages |-> m, user_query |-> uq, status |-> st, steps |-> ss,
     current_step_index |-> idx, completed_steps |-> cs, plan_accepted |-> pa,
     plan_shown_to_user |-> psu, is_irrelevant_query |-> irr,
     is_forbidden_query |-> forb]

NoCheckpoint == [exists |-> FALSE]

\* state_loader.py:37-68: the Session of a session id seen for the first time
CreateNewStateCheckpoint(user_message) ==
    ADTState(<<HumanMessage(user_message)>>, user_message, "IN_PROGRESS",
             << >>, -1, << >>, FALSE, FALSE, FALSE, FALSE)

\* state_loader.py:70-128
LoadStateCheckpoint(file, user_message) ==
    ADTState(DeserializeMessages(file.messages) \o <<HumanMessage(user_message)>>,
             user_message, "IN_PROGRESS", ParseSteps(file.steps), -1,
             ParseSteps(file.completed_steps), FALSE, file.plan_shown_to_user,
             file.is_irrelevant_query, file.is_forbidden_query)

\* state_loader.py:130-162
SaveStateCheckpoint(out) ==
    [exists |-> TRUE,
     messages |-> SerializeMessages(out.messages),
     user_query |-> out.user_query,
     status |-> EnumValue(out.status),
     steps |-> DumpSteps(out.steps),
     current_step_index |-> out.current_step_index,
     completed_steps |-> DumpSteps(out.completed_steps),
     plan_accepted |-> out.plan_accepted,
     plan_shown_to_user |-> out.plan_shown_to_user,
     is_irrelevant_query |-> out.is_irrelevant_query,
     is_forbidden_query |-> out.is_forbidden_query]

\* chat.py:58-84: the /chat/edit handler rebuilds the Session from the
\* checkpoint's messages only; every other field takes its default
ChatEditLoad(file, user_message) ==
    ADTState((IF file.exists THEN DeserializeMessages(file.messages) ELSE << >>)
                 \o <<HumanMessage(user_message)>>,
             user_message, "IN_PROGRESS", << >>, -1, << >>, FALSE, FALSE, FALSE, FALSE)

\* chat.py:109-122
ChatEditSave(out) ==
    [exists |-> TRUE,
     messages |-> SerializeMessages(out.messages),
     user_query |-> "",
     status |-> EnumValue(out.status),
     steps |-> DumpSteps(out.steps),
     current_step_index |-> out.current_step_index,
     completed_steps |-> DumpSteps(out.completed_steps),
     plan_accepted |-> out.plan_accepted,
     plan_shown_to_user |-> out.plan_shown_to_user,
     is_irrelevant_query |-> out.is_irrelevant_query,
     is_forbidden_query |-> out.is_forbidden_query]

(***************************************************************************)
(* The checkpoint file.  json.dump writes the document to the open file    *)
(* piece by piece; the text of the file is the sequence of pieces written  *)
(* so far.  json.load accepts a text only when it is a whole document.     *)
(***************************************************************************)
JsonFields == <<"messages", "user_query", "status", "steps", "current_step_index",
                "completed_steps", "plan_accepted", "plan_shown_to_user",
                "is_irrelevant_query", "is_forbidden_query">>

\* state_loader.py:157-158 / chat.py:118-122  json.dump(doc, f)
JsonDump(doc) ==
    <<[k |-> "{", v |-> ""]>>
    \o [i \in 1..Len(JsonFields) |-> [k |-> JsonFields[i], v |-> doc[JsonFields[i]]]]
    \o <<[k |-> "}", v |-> ""]>>

\* json.load raises JSONDecodeError unless the text is a complete document
JsonDecodes(text) ==
    /\ Len(text) = Len(JsonFields) + 2
    /\ text[1].k = "{"
    /\ text[Len(text)].k = "}"

\* state_loader.py:83 / chat.py:68  json.load(f) of a complete document
JsonLoad(text) ==
    [exists |-> TRUE,
     messages |-> text[2].v,
     user_query |-> text[3].v,
     status |-> text[4].v,
     steps |-> text[5].v,
     current_step_index |-> text[6].v,
     completed_steps |-> text[7].v,
     plan_accepted |-> text[8].v,
     plan_shown_to_user |-> text[9].v,
     is_irrelevant_query |-> text[10].v,
     is_forbidden_query |-> text[11].v]

NoFile == [exists |-> FALSE, text |-> << >>]

\* open(path, "w") followed by the first n pieces of the dump
FileWritten(doc, n) == [exists |-> TRUE, text |-> SubSeq(JsonDump(doc), 1, n)]

(***************************************************************************)
(* Routing functions of the workflow graph (workflows/routes.py).          *)
(***************************************************************************)
\* routes.py:10-28
RouteUserMessage(shown) == IF shown THEN "handle_plan_response" ELSE "planner"

\* routes.py:31-55
CheckValidQuery(irrelevant, forbidden, ss, accepted) ==
    IF irrelevant THEN "non_valid_message"
    ELSE IF forbidden THEN "non_valid_message"
    ELSE IF ss # << >> THEN "show_plan"
    ELSE "rephrase_query"

\* variant: execution starts whether or not the plan was accepted
ShouldAdjustPlanAlwaysExecute(accepted) == "execute_step"

\* routes.py:58-68
ShouldAdjustPlan(accepted) == IF accepted THEN "execute_step" ELSE "show_plan"

\* routes.py:90  agent.lstrip("- ").strip(): leading dash/blank tokens go
RECURSIVE LStrip(_)
LStrip(name) ==
    IF name # << >> /\ Head(name) \in {"-", " "} THEN LStrip(Tail(name)) ELSE name

\* routes.py:92-102  `"X" in agent_name`
NameContains(name, key) == \E i \in 1..Len(name) : name[i] = key

\* routes.py:71-105; "IndexError" stands for steps[current_step_index] raising
RouteToAgent(ss, idx) ==
    IF ss = << >> THEN "__end__"
    ELSE IF idx >= Len(ss) \/ idx < -Len(ss) THEN "IndexError"
    ELSE LET cur == IF idx >= 0 THEN ss[idx + 1] ELSE ss[Len(ss) + idx + 1]
             agent_name == LStrip(cur.agent)
         IN  IF NameContains(agent_name, "Text Edit Agent") THEN "text_edit_agent"
             ELSE IF NameContains(agent_name, "Layout Edit Agent") THEN "layout_edit_agent"
             ELSE IF NameContains(agent_name, "Layout Mirror Agent") THEN "layout_mirror_agent"
             ELSE IF NameContains(agent_name, "Web Merge Agent") THEN "web_merge_agent"
             ELSE IF NameContains(agent_name, "Web Split Agent") THEN "web_split_agent"
             ELSE IF NameContains(agent_name, "Web Delete Agent") THEN "web_delete_agent"
             ELSE "finalize_task"

\* variant: the boundary check lets the router continue at the last index
ShouldContinueExecutionPastLast(ss, idx) ==
    IF ss = << >> \/ idx >= Len(ss) THEN "__end__" ELSE "execute_step"

\* routes.py:108-115
ShouldContinueExecution(ss, idx) ==
    IF ss = << >> \/ idx >= Len(ss) - 1 THEN "__end__" ELSE "execute_step"

AgentNodes == {"text_edit_agent", "layout_edit_agent", "layout_mirror_agent",
               "web_merge_agent", "web_split_agent", "web_delete_agent"}

(***************************************************************************)
(* What an Agent sub-workflow can do to the Session before it returns to   *)
(* the router: the status it leaves on the current Step, the messages it   *)
(* appends, or an exception that escapes it.                               *)
(***************************************************************************)
AgentDone == [raises |-> FALSE, sets_success |-> TRUE, writes |-> TRUE,
              text_edits |-> "keep",
              msgs |-> <<SystemMessage("files processed"), AIMessage("final_response")>>]

\* text_edit_agent: detect_text_edits found edits and edit_texts applied them
AgentTextEdited == [AgentDone EXCEPT !.text_edits = "[edit]"]

\* text_edit_agent: detect_text_edits stored an empty list, edit_texts
\* returned at its guard
AgentNoEdits == [raises |-> FALSE, sets_success |-> FALSE, writes |-> FALSE,
                 text_edits |-> "[]", msgs |-> << >>]

AgentRaises == [raises |-> TRUE, sets_success |-> FALSE, writes |-> FALSE,
                text_edits |-> "keep", msgs |-> << >>]

AgentOutcomes(node) ==
    CASE node = "text_edit_agent" -> {AgentTextEdited, AgentNoEdits, AgentRaises}
      [] node = "layout_edit_agent" -> {AgentRaises}
      [] OTHER -> {AgentDone, AgentRaises}

\* variant: the detected edits are stored and the Step's target paths are
\* narrowed to the files that were read
SetTextEditsAndFiles(ss, idx, edits) ==
    IF edits = "keep" THEN ss
    ELSE [ss EXCEPT ![idx + 1].text_edits = edits, ![idx + 1].html_files = {}]

\* text_edit_agent/actions.py:112  steps[current_step_index].text_edits = ...
SetTextEdits(ss, idx, edits) ==
    IF edits = "keep" THEN ss ELSE [ss EXCEPT ![idx + 1].text_edits = edits]

\* the agents' `steps[current_step_index].status = StepStatus.SUCCESS`
SetStepStatus(ss, idx, st) ==
    IF 0 <= idx /\ idx < Len(ss) THEN [ss EXCEPT ![idx + 1].status = st] ELSE ss

(***************************************************************************)
(* Pieces of the planning handlers (workflows/actions.py).                 *)
(***************************************************************************)
\* variant: off-by-one loop guard, the third attempt is never made
PlannerLoopRunsExclusive(n) == n < PlannerMaxAttempts - 1

\* actions.py:167  loop guard of the retry loop
PlannerLoopRuns(n) == n < PlannerMaxAttempts

\* actions.py:183-188  the break condition of the retry loop
PlannerLoopBreaks(r) == r.is_irrelevant \/ r.is_forbidden \/ r.steps # << >>

\* actions.py:204-213  a fresh PlanningStep per returned step (status defaults)
NewPlanningSteps(ss) == [i \in 1..Len(ss) |-> [ss[i] EXCEPT !.status = "PENDING"]]

\* actions.py:359
ReplanAccepted(r) == ~r.modified

\* variant: the returned Steps replace the plan even when modified is false
ReplanStepsAlways(old, r) == r.steps

\* actions.py:362-363
ReplanSteps(old, r) == IF r.modified THEN r.steps ELSE old

(***************************************************************************)
(* The repository in OUTPUT_DIR, its origin remote and the pull requests   *)
(* on GitHub.  The tracked files are one content value (a tree); a commit  *)
(* is a number, its record holds its parent (0: none), its tree, its       *)
(* author and the operation that made it.  A world `w` is the repository   *)
(* together with the bookkeeping of the request being served: the number   *)
(* of subprocesses run so far, the ones the environment makes fail, and    *)
(* the record of the manager operations called.                            *)
(***************************************************************************)
MainBranch == "main"

\* git_version_manager.py:102  f"{base_branch_name}_{uuid4().hex}"
WorkingBranches == <<"adt_chat_editor/_1", "adt_chat_editor/_2", "adt_chat_editor/_3">>

BranchNames == {MainBranch} \cup {WorkingBranches[i] : i \in 1..Len(WorkingBranches)}

\* git_version_manager.py:101  current.startswith(self.base_branch_name)
StartsWithBase(name) == \E i \in 1..Len(WorkingBranches) : name = WorkingBranches[i]

TreeOf(w, c) == IF c = 0 THEN -1 ELSE w.commits[c].tree

HeadTree(w) == TreeOf(w, w.head.commit)

\* a is c or an ancestor of c
RECURSIVE IsAncestor(_, _, _)
IsAncestor(w, a, c) ==
    IF c = 0 THEN FALSE
    ELSE IF a = c THEN TRUE
    ELSE IsAncestor(w, a, w.commits[c].parent)

\* git_version_manager.py:134-144  _run_git / 146-161 _run_gh: the subprocess
\* exits non-zero when the environment makes it fail or git refuses
Fails(w) == (w.n + 1) \in w.faults

Ran(w) == [w EXCEPT !.n = @ + 1]

Failure(w) == [ok |-> FALSE, w |-> Ran(w), out |-> 0]

Success(w, out) == [ok |-> TRUE, w |-> Ran(w), out |-> out]

\* git add .
GitAdd(w) ==
    IF Fails(w) THEN Failure(w)
    ELSE Success([w EXCEPT !.index = w.worktree], 0)

\* git diff --cached --exit-code --quiet HEAD: the return code
GitDiffCached(w) ==
    IF Fails(w) THEN 128 ELSE IF w.index = HeadTree(w) THEN 0 ELSE 1

\* git commit [--allow-empty] -m message: git refuses when nothing is staged
GitCommit(w, allow_empty, via) ==
    IF Fails(w) \/ (~allow_empty /\ w.index = HeadTree(w)) THEN Failure(w)
    ELSE LET c == Len(w.commits) + 1
             made == [parent |-> w.head.commit, tree |-> w.index,
                      author |-> "bot@example.com", via |-> via]
         IN  Success([w EXCEPT
                        !.commits = Append(@, made),
                        !.head.commit = c,
                        !.branches = IF w.head.ref = "HEAD" THEN @
                                     ELSE [@ EXCEPT ![w.head.ref] = c]], c)

\* git checkout -f <hash>: detached HEAD, local changes are thrown away
GitCheckoutForce(w, c) ==
    IF Fails(w) \/ c \notin 1..Len(w.commits) THEN Failure(w)
    ELSE Success([w EXCEPT !.head = [ref |-> "HEAD", commit |-> c],
                           !.index = TreeOf(w, c),
                           !.worktree = TreeOf(w, c)], 0)

\* git checkout <name>: refused when the branch does not exist or when
\* local changes would be overwritten
GitCheckout(w, name) ==
    IF Fails(w) THEN Failure(w)
    ELSE IF name = "HEAD" \/ name = w.head.ref THEN Success(w, 0)
    ELSE IF name \notin BranchNames THEN Failure(w)
    ELSE IF w.branches[name] = 0 THEN Failure(w)
    ELSE LET c == w.branches[name]
             clean == w.worktree = HeadTree(w) /\ w.index = HeadTree(w)
         IN  IF clean
             THEN Success([w EXCEPT !.head = [ref |-> name, commit |-> c],
                                    !.index = TreeOf(w, c),
                                    !.worktree = TreeOf(w, c)], 0)
             ELSE IF TreeOf(w, c) = HeadTree(w)
             THEN Success([w EXCEPT !.head = [ref |-> name, commit |-> c]], 0)
             ELSE Failure(w)

\* git checkout -b <name>
GitCheckoutNew(w, name) ==
    IF Fails(w) \/ name \notin BranchNames THEN Failure(w)
    ELSE IF w.branches[name] # 0 THEN Failure(w)
    ELSE Success([w EXCEPT !.branches[name] = w.head.commit,
                           !.head.ref = name], 0)

\* git reset --hard <commit>
GitResetHard(w, c) ==
    IF Fails(w) \/ c \notin 1..Len(w.commits) THEN Failure(w)
    ELSE Success([w EXCEPT !.head.commit = c,
                           !.branches = IF w.head.ref = "HEAD" THEN @
                                        ELSE [@ EXCEPT ![w.head.ref] = c],
                           !.index = TreeOf(w, c),
                           !.worktree = TreeOf(w, c)], 0)

\* git push [--force] origin <branch>: without --force origin refuses a tip
\* that does not descend from its own
GitPush(w, branch, force) ==
    IF Fails(w) \/ branch \notin BranchNames THEN Failure(w)
    ELSE IF w.branches[branch] = 0 THEN Failure(w)
    ELSE IF ~force /\ w.origin[branch] # 0
                   /\ ~IsAncestor(w, w.origin[branch], w.branches[branch])
    THEN Failure(w)
    ELSE Success([w EXCEPT !.origin[branch] = w.branches[branch]], 0)

\* git rev-parse HEAD
GitRevParseHead(w) == IF Fails(w) THEN Failure(w) ELSE Success(w, w.head.commit)

\* git rev-parse --abbrev-ref HEAD
GitAbbrevRef(w) == IF Fails(w) THEN Failure(w) ELSE Success(w, w.head.ref)

\* git rev-parse last_published
GitRevParseTag(w) == IF Fails(w) \/ w.tag = 0 THEN Failure(w) ELSE Success(w, w.tag)

\* git tag -f last_published <commit>
GitTagForce(w, c) == IF Fails(w) THEN Failure(w) ELSE Success([w EXCEPT !.tag = c], 0)

\* the commits reachable from `tip` and not from `exclude` (0: nothing
\* excluded) whose author is the bot, newest first
RECURSIVE LogWalk(_, _, _)
LogWalk(w, tip, exclude) ==
    IF tip = 0 THEN << >>
    ELSE IF exclude # 0 /\ IsAncestor(w, tip, exclude) THEN << >>
    ELSE (IF w.commits[tip].author = "bot@example.com" THEN <<tip>> ELSE << >>)
         \o LogWalk(w, w.commits[tip].parent, exclude)

Take(s, n) == SubSeq(s, 1, IF Len(s) < n THEN Len(s) ELSE n)

Reverse(s) == [i \in 1..Len(s) |-> s[Len(s) + 1 - i]]

\* git log <range> --max-count=<limit> --author=bot@example.com
GitLog(w, tip, exclude, limit) ==
    IF Fails(w) \/ tip = 0 THEN Failure(w)
    ELSE Success(w, Take(LogWalk(w, tip, exclude), limit))

\* gh pr list --head <branch> --json number --jq .[0].number
GhPrList(w, branch) ==
    IF Fails(w) THEN Failure(w)
    ELSE Success(w, branch \in BranchNames /\ w.open_prs[branch])

\* gh pr create --base main --head <head>: GitHub refuses a head that is
\* not on origin or that already has an open pull request
GhPrCreate(w, head) ==
    IF Fails(w) \/ head \notin BranchNames THEN Failure(w)
    ELSE IF w.origin[head] = 0 \/ w.open_prs[head] THEN Failure(w)
    ELSE Success([w EXCEPT !.open_prs[head] = TRUE,
                           !.prs_created[head] = @ + 1], 0)

(***************************************************************************)
(* Operations of AsyncGitVersionManager (core/git_version_manager.py).     *)
(* Each takes a world and gives [ok, w, ret]: ok is false when the         *)
(* operation raised its RuntimeError.  Every call is recorded in w.log.    *)
(***************************************************************************)
Logged(w, op, arg, ok, flag) ==
    [w EXCEPT !.log = Append(@, [op |-> op, arg |-> arg, ok |-> ok, ret |-> flag])]

Return(w, op, arg, ret, flag) ==
    [ok |-> TRUE, w |-> Logged(w, op, arg, TRUE, flag), ret |-> ret]

Raise(w, op, arg) ==
    [ok |-> FALSE, w |-> Logged(w, op, arg, FALSE, FALSE), ret |-> 0]

\* the value of a singleton set.  Only({body : x \in {e}}) is body with x
\* bound to the value of e: the subprocess or operation e runs once, and its
\* result is then read as often as body needs it
Only(S) == CHOOSE x \in S : TRUE

\* git_version_manager.py:327-332
CurrentBranch(w) ==
    Only({IF r.ok THEN Return(r.w, "current_branch", "", r.out, TRUE)
          ELSE Raise(r.w, "current_branch", "") : r \in {GitAbbrevRef(w)}})

\* the commit step of commit_changes, with or without --allow-empty
CommitStaged(w, allow_empty) ==
    Only({IF c.ok THEN Return(c.w, "commit_changes", "", TRUE, TRUE)
          ELSE Raise(c.w, "commit_changes", "")
          : c \in {GitCommit(w, allow_empty, "commit_changes")}})

\* variant: the diff against HEAD is not consulted, the commit is made with
\* --allow-empty
CommitChangesNoDiffCheck(w) ==
    Only({IF ~a.ok THEN Raise(a.w, "commit_changes", "")
          ELSE CommitStaged(a.w, TRUE) : a \in {GitAdd(w)}})

\* git_version_manager.py:170-192
CommitChanges(w) ==
    Only({IF ~a.ok THEN Raise(a.w, "commit_changes", "")
          ELSE Only({IF returncode = 0
                     THEN Return(d, "commit_changes", "", FALSE, FALSE)
                     ELSE CommitStaged(d, FALSE)
                     : returncode \in {GitDiffCached(a.w)}, d \in {Ran(a.w)}})
          : a \in {GitAdd(w)}})

\* git_version_manager.py:194-200
FirstCommit(w) ==
    Only({IF c.ok THEN Return(c.w, "first_commit", "", 0, TRUE)
          ELSE Raise(c.w, "first_commit", "")
          : c \in {GitCommit(w, TRUE, "first_commit")}})

\* git_version_manager.py:202-207
CheckoutCommit(w, commit_hash) ==
    Only({IF c.ok THEN Return(c.w, "checkout_commit", "", 0, TRUE)
          ELSE Raise(c.w, "checkout_commit", "")
          : c \in {GitCheckoutForce(w, commit_hash)}})

\* git_version_manager.py:271-276
CheckoutBranch(w, branch_name) ==
    Only({IF c.ok THEN Return(c.w, "checkout_branch", branch_name, 0, TRUE)
          ELSE Raise(c.w, "checkout_branch", branch_name)
          : c \in {GitCheckout(w, branch_name)}})

\* git_version_manager.py:163-168
CreateBranch(w, branch_name) ==
    Only({IF c.ok THEN Return(c.w, "create_branch", branch_name, 0, TRUE)
          ELSE Raise(c.w, "create_branch", branch_name)
          : c \in {GitCheckoutNew(w, branch_name)}})

\* git_version_manager.py:228-249  git log over the range, oldest first
ListRange(w, branch_name, limit, since_last_push, exclude) ==
    Only({IF l.ok
          THEN Return(l.w, "list_commits", branch_name, Reverse(l.out), l.out # << >>)
          ELSE Raise(l.w, "list_commits", branch_name)
          : l \in {GitLog(w, IF since_last_push \/ branch_name = "HEAD"
                             THEN w.head.commit ELSE w.branches[branch_name],
                          exclude, limit)}})

\* variant: a missing last_published tag is reported as an error
ListCommitsTagRequired(w, branch_name, limit, since_last_push) ==
    Only({IF ~co.ok THEN Raise(co.w, "list_commits", branch_name)
          ELSE IF ~since_last_push THEN ListRange(co.w, branch_name, limit, FALSE, 0)
          ELSE Only({IF ~t.ok THEN Raise(t.w, "list_commits", branch_name)
                     ELSE ListRange(t.w, branch_name, limit, TRUE, t.out)
                     : t \in {GitRevParseTag(co.w)}})
          : co \in {CheckoutBranch(w, branch_name)}})

\* git_version_manager.py:209-249
ListCommits(w, branch_name, limit, since_last_push) ==
    Only({IF ~co.ok THEN Raise(co.w, "list_commits", branch_name)
          ELSE IF ~since_last_push THEN ListRange(co.w, branch_name, limit, FALSE, 0)
          ELSE Only({IF ~t.ok THEN Return(t.w, "list_commits", branch_name, << >>, FALSE)
                     ELSE ListRange(t.w, branch_name, limit, TRUE, t.out)
                     : t \in {GitRevParseTag(co.w)}})
          : co \in {CheckoutBranch(w, branch_name)}})

\* git_version_manager.py:278-283
PushBranch(w, branch_name) ==
    Only({IF p.ok THEN Return(p.w, "push_branch", branch_name, 0, TRUE)
          ELSE Raise(p.w, "push_branch", branch_name)
          : p \in {GitPush(w, branch_name, FALSE)}})

\* git_version_manager.py:301-309  reset --hard to the commit, push --force
ResetAndForcePush(w, branch_name, commit) ==
    Only({IF ~rs.ok THEN Raise(rs.w, "force_branch_to_current_commit", branch_name)
          ELSE Only({IF p.ok
                     THEN Return(p.w, "force_branch_to_current_commit", branch_name, 0, TRUE)
                     ELSE Raise(p.w, "force_branch_to_current_commit", branch_name)
                     : p \in {GitPush(rs.w, branch_name, TRUE)}})
          : rs \in {GitResetHard(w, commit)}})

\* git_version_manager.py:285-312
ForceBranchToCurrentCommit(w, branch_name) ==
    Only({IF ~h.ok THEN Raise(h.w, "force_branch_to_current_commit", branch_name)
          ELSE Only({IF ~co.ok
                     THEN Raise(co.w, "force_branch_to_current_commit", branch_name)
                     ELSE ResetAndForcePush(co.w, branch_name, h.out)
                     : co \in {GitCheckout(h.w, branch_name)}})
          : h \in {GitRevParseHead(w)}})

\* safe_push returns or raises as the push it delegated to did
SafePushed(p, branch_name) ==
    IF p.ok THEN Return(p.w, "safe_push", branch_name, 0, TRUE)
    ELSE Raise(p.w, "safe_push", branch_name)

\* variant: a detached HEAD is pushed like a branch, nothing is reconciled
SafePushPlain(w, branch_name) ==
    Only({IF ~b.ok THEN Raise(b.w, "safe_push", branch_name)
          ELSE Only({SafePushed(p, branch_name) : p \in {PushBranch(b.w, branch_name)}})
          : b \in {CurrentBranch(w)}})

\* git_version_manager.py:314-320
SafePush(w, branch_name) ==
    Only({IF ~b.ok THEN Raise(b.w, "safe_push", branch_name)
          ELSE Only({SafePushed(p, branch_name)
                     : p \in {IF b.ret = "HEAD"
                              THEN ForceBranchToCurrentCommit(b.w, branch_name)
                              ELSE PushBranch(b.w, branch_name)}})
          : b \in {CurrentBranch(w)}})

\* git_version_manager.py:322-325
TagLastPublishedCommit(w) ==
    Only({IF ~h.ok THEN Raise(h.w, "tag_last_published_commit", "")
          ELSE Only({IF t.ok THEN Return(t.w, "tag_last_published_commit", "", 0, TRUE)
                     ELSE Raise(t.w, "tag_last_published_commit", "")
                     : t \in {GitTagForce(h.w, h.out)}})
          : h \in {GitRevParseHead(w)}})

\* git_version_manager.py:334-346
CreatePullRequest(w) ==
    Only({IF ~head.ok THEN Raise(head.w, "create_pull_request", "")
          ELSE Only({IF c.ok THEN Return(c.w, "create_pull_request", head.ret, 0, TRUE)
                     ELSE Raise(c.w, "create_pull_request", head.ret)
                     : c \in {GhPrCreate(head.w, head.ret)}})
          : head \in {CurrentBranch(w)}})

\* git_version_manager.py:348-359
PullRequestExists(w, branch_name) ==
    Only({IF l.ok THEN Return(l.w, "pull_request_exists", branch_name, l.out, l.out)
          ELSE Raise(l.w, "pull_request_exists", branch_name)
          : l \in {GhPrList(w, branch_name)}})

(***************************************************************************)
(* Set-up of the manager and the provider of the shared instance.          *)
(***************************************************************************)
\* a subprocess that changes nothing the model tracks (git config, git
\* remote get-url / set-url)
GitPlain(w) == IF Fails(w) THEN Failure(w) ELSE Success(w, 0)

\* the uuid of a new working branch: a name no branch has yet
NewBranchName(w) ==
    LET free == {i \in 1..Len(WorkingBranches) : w.branches[WorkingBranches[i]] = 0}
    IN  WorkingBranches[CHOOSE i \in free : \A j \in free : i <= j]

\* git_version_manager.py:108-109  tag HEAD, then the baseline commit
TagAndFirstCommit(w, name) ==
    Only({IF ~t.ok THEN [w |-> t.w, true_branch_name |-> name]
          ELSE Only({[w |-> f.w, true_branch_name |-> name] : f \in {FirstCommit(t.w)}})
          : t \in {TagLastPublishedCommit(w)}})

\* git_version_manager.py:91-114  every failure is caught and logged;
\* true_branch_name stays unset when the branch could not be had
InitialiseWorkingBranch(w) ==
    Only({IF ~current.ok THEN [w |-> current.w, true_branch_name |-> ""]
          ELSE IF StartsWithBase(current.ret)
          THEN TagAndFirstCommit(current.w, current.ret)
          ELSE Only({IF ~made.ok THEN [w |-> made.w, true_branch_name |-> ""]
                     ELSE TagAndFirstCommit(made.w, name)
                     : name \in {NewBranchName(current.w)},
                       made \in {CreateBranch(current.w, NewBranchName(current.w))}})
          : current \in {CurrentBranch(w)}})

\* git_version_manager.py:60-89  the subprocesses of create() without a
\* working branch: two of git config, remote get-url, remote set-url
CreateSubprocesses == 4

\* n subprocesses in a row that change nothing the model tracks; the first
\* that fails ends the row
RECURSIVE PlainRow(_, _)
PlainRow(w, n) ==
    IF n = 0 THEN [ok |-> TRUE, w |-> w]
    ELSE Only({IF ~c.ok THEN [ok |-> FALSE, w |-> c.w] ELSE PlainRow(c.w, n - 1)
               : c \in {GitPlain(w)}})

\* git_version_manager.py:28-89  __init__, _configure_git_identity and
\* _ensure_https_remote: ok is false when create() raises
SetupRemote(w) ==
    IF ~w.is_repo THEN [ok |-> FALSE, w |-> w]
    ELSE PlainRow(w, CreateSubprocesses)

NoManager == [set |-> FALSE, true_branch_name |-> ""]

\* git_manager_provider.py:13-30  gives the instance (set is false for None)
\* and the world after the set-up it may have run
GetGitManager(m, w) ==
    IF m.set THEN [m |-> m, w |-> w]
    ELSE Only({IF s.ok THEN [m |-> [set |-> TRUE, true_branch_name |-> ""], w |-> s.w]
               ELSE [m |-> NoManager, w |-> s.w] : s \in {SetupRemote(w)}})

\* main.py:51-73  lifespan start-up: create(init_working_branch=True), then
\* set_git_manager; skipped when OUTPUT_DIR holds no repository
Lifespan(w) ==
    IF ~w.is_repo THEN [m |-> NoManager, w |-> w]
    ELSE Only({IF ~s.ok THEN [m |-> NoManager, w |-> s.w]
               ELSE Only({[m |-> [set |-> TRUE, true_branch_name |-> b.true_branch_name],
                           w |-> b.w] : b \in {InitialiseWorkingBranch(s.w)}})
               : s \in {SetupRemote(w)}})

(***************************************************************************)
(* The request handlers that use the manager.  Each gives the provider's   *)
(* instance, the world and, for the endpoints, the status answered.        *)
(***************************************************************************)
\* git_version_manager.py:212  limit: int = 50
ListLimit == 50

\* variant: the pull request is created without asking whether one exists
PublishPullRequestUnchecked(w, branch) == CreatePullRequest(w)

\* publish.py:126-135 / 156-165
PublishPullRequest(w, branch) ==
    Only({IF ~pr_exists.ok THEN pr_exists
          ELSE IF ~pr_exists.ret THEN CreatePullRequest(pr_exists.w)
          ELSE pr_exists : pr_exists \in {PullRequestExists(w, branch)}})

\* publish.py:126-147 / 156-177: pull request, then the baseline commit
\* whose failure is only logged
PublishPrAndBaseline(w, branch) ==
    Only({IF ~pr.ok THEN [w |-> pr.w, status |-> "error"]
          ELSE Only({[w |-> f.w, status |-> "published"] : f \in {FirstCommit(pr.w)}})
          : pr \in {PublishPullRequest(w, branch)}})

\* variant: a failure of the tag is logged and the publish goes on
PublishPushTagPrLenientTag(w, branch) ==
    Only({IF ~p.ok THEN [w |-> p.w, status |-> "error"]
          ELSE Only({PublishPrAndBaseline(t.w, branch)
                     : t \in {TagLastPublishedCommit(p.w)}})
          : p \in {SafePush(w, branch)}})

\* variant: a failure of the push is logged and the publish goes on
PublishPushTagPrLenientPush(w, branch) ==
    Only({Only({IF ~t.ok THEN [w |-> t.w, status |-> "error"]
                ELSE PublishPrAndBaseline(t.w, branch)
                : t \in {TagLastPublishedCommit(p.w)}})
          : p \in {SafePush(w, branch)}})

\* publish.py:117-147 / 149-177: push, tag, pull request, baseline commit
PublishPushTagPr(w, branch) ==
    Only({IF ~p.ok THEN [w |-> p.w, status |-> "error"]
          ELSE Only({IF ~t.ok THEN [w |-> t.w, status |-> "error"]
                     ELSE PublishPrAndBaseline(t.w, branch)
                     : t \in {TagLastPublishedCommit(p.w)}})
          : p \in {SafePush(w, branch)}})

\* publish.py:104-184  commit, then publish when something was committed
\* now or since the last publish
PublishCommitAndPush(w, current_branch, true_branch_name, previous_commits) ==
    Only({IF ~current_commit.ok THEN [w |-> current_commit.w, status |-> "error"]
          ELSE IF branch = "" THEN [w |-> current_commit.w, status |-> "error"]
          ELSE IF current_commit.ret \/ previous_commits # << >>
          THEN PublishPushTagPr(current_commit.w, branch)
          ELSE [w |-> current_commit.w, status |-> "not-published"]
          : current_commit \in {CommitChanges(w)},
            branch \in {IF current_branch = "HEAD" THEN true_branch_name
                        ELSE current_branch}})

\* publish.py:100-184  with the instance in hand
PublishWithManager(w, true_branch_name) ==
    Only({IF ~current_branch.ok THEN [w |-> current_branch.w, status |-> "error"]
          ELSE Only({IF ~previous_commits.ok
                     THEN [w |-> previous_commits.w, status |-> "error"]
                     ELSE PublishCommitAndPush(previous_commits.w, current_branch.ret,
                                               true_branch_name, previous_commits.ret)
                     : previous_commits \in
                          {ListCommits(current_branch.w, current_branch.ret,
                                       ListLimit, TRUE)}})
          : current_branch \in {CurrentBranch(w)}})

\* publish.py:85-191
PublishChangesHandler(m, w) ==
    Only({IF ~g.m.set THEN [m |-> g.m, w |-> g.w, status |-> "not-published"]
          ELSE Only({[m |-> g.m, w |-> r.w, status |-> r.status]
                     : r \in {PublishWithManager(g.w, g.m.true_branch_name)}})
          : g \in {GetGitManager(m, w)}})

\* publish.py:70-82
CheckoutCommitHandler(m, w, commit_hash) ==
    Only({IF ~g.m.set THEN [m |-> g.m, w |-> g.w, status |-> "error"]
          ELSE Only({[m |-> g.m, w |-> c.w, status |-> IF c.ok THEN "ok" ELSE "error"]
                     : c \in {CheckoutCommit(g.w, commit_hash)}})
          : g \in {GetGitManager(m, w)}})

\* actions.py:529-545  the commits of the branch, then the checkout of the
\* newest one when there is one
FinalizeListAndCheckout(w) ==
    Only({IF ~current_branch.ok THEN current_branch.w
          ELSE Only({IF listed.ok /\ listed.ret # << >>
                     THEN CheckoutCommit(listed.w, listed.ret[Len(listed.ret)]).w
                     ELSE listed.w
                     : listed \in {ListCommits(current_branch.w, current_branch.ret,
                                               ListLimit, TRUE)}})
          : current_branch \in {CurrentBranch(w)}})

\* variant: the helper returns at the first failure
FinalizeGitOperationsStopAtFailure(m, w) ==
    Only({IF ~g.m.set THEN [m |-> g.m, w |-> g.w]
          ELSE Only({IF ~committed.ok THEN [m |-> g.m, w |-> committed.w]
                     ELSE [m |-> g.m, w |-> FinalizeListAndCheckout(committed.w)]
                     : committed \in {CommitChanges(g.w)}})
          : g \in {GetGitManager(m, w)}})

\* actions.py:502-545  every failure is caught and logged; the commit list
\* and the checkout are attempted even when the commit failed
FinalizeGitOperations(m, w) ==
    Only({IF ~g.m.set THEN [m |-> g.m, w |-> g.w]
          ELSE Only({[m |-> g.m, w |-> FinalizeListAndCheckout(committed.w)]
                     : committed \in {CommitChanges(g.w)}})
          : g \in {GetGitManager(m, w)}})

(***************************************************************************)
(* Repositories and fault choices.                                         *)
(***************************************************************************)
\* the checkout in OUTPUT_DIR before the application first starts: one
\* commit made by a person, on main, pushed, nothing modified
SeedRepo ==
    [commits |-> <<[parent |-> 0, tree |-> 0, author |-> "person", via |-> "seed"]>>,
     head |-> [ref |-> MainBranch, commit |-> 1],
     branches |-> [b \in BranchNames |-> IF b = MainBranch THEN 1 ELSE 0],
     origin |-> [b \in BranchNames |-> IF b = MainBranch THEN 1 ELSE 0],
     tag |-> 0,
     worktree |-> 0,
     index |-> 0,
     open_prs |-> [b \in BranchNames |-> FALSE],
     prs_created |-> [b \in BranchNames |-> 0],
     is_repo |-> TRUE]

\* OUTPUT_DIR without a .git directory
NoRepo == [SeedRepo EXCEPT !.is_repo = FALSE]

RepoFields == DOMAIN SeedRepo

\* the world of a request that starts on repository r with the subprocesses
\* numbered in F failing
World(r, F) == [f \in RepoFields \cup {"n", "faults", "log"} |->
                  IF f = "n" THEN 0
                  ELSE IF f = "faults" THEN F
                  ELSE IF f = "log" THEN << >>
                  ELSE r[f]]

Repo(w) == [f \in RepoFields |-> w[f]]

\* the most subprocesses the lifespan start-up and the git helper of
\* Finalize can run
LifespanSubprocesses == 9

FinalizeSubprocesses == 12

\* the handlers run at most these many once they hold the instance
PublishSubprocesses == 18

CheckoutSubprocesses == 1

\* the subprocesses the environment may make fail during one request that
\* runs at most n of them: none, or at most MaxFaults in a row (an outage
\* that starts at any subprocess of the request)
FaultSets(n) ==
    {{}} \cup {first..(first + k - 1) : first \in 1..n, k \in 1..MaxFaults}

\* files under OUTPUT_DIR are rewritten: a content that is neither the
\* present one nor one already committed
NewContent(r) ==
    LET used == {r.commits[c].tree : c \in 1..Len(r.commits)} \cup {r.worktree, r.index}
    IN  CHOOSE t \in 0..(Len(r.commits) + 2) :
            t \notin used /\ \A u \in 0..(Len(r.commits) + 2) : u \notin used => t <= u

(***************************************************************************)
(* State.                                                                  *)
(***************************************************************************)
VARIABLES
    wrapper,          \* which turn handler serves /chat/edit
    ckpt,             \* the document the last completed save wrote
    disk,             \* the session's checkpoint file: whether it exists, its text
    boots,            \* application starts after the first
    pc,               \* workflow node about to run; "idle" between turns
    turn,             \* turns started so far
    request,          \* user_message of the ChatEditRequest being served
    state,            \* the ADTState the workflow is running on
    retries,          \* plan_steps: local `retries`
    parsed_response,  \* plan_steps / handle_plan_response: local `parsed_response`
    planner_log,      \* history: model responses received in this turn
    dispatched,       \* history: step indices handed to an Agent in this turn
    shown,            \* history: the plan show_plan displayed last since start-up, and when
    outcome,          \* history: how the last turn ended; "running" during one
    entry_state,      \* history: the Session handed to the router in this turn
    saved_state,      \* history: the Session whose save produced ckpt
    repo,             \* the repository in OUTPUT_DIR, origin and the pull requests
    manager,          \* git_manager_provider._git_manager
    calls,            \* history: manager operations called by the last request
    reply,            \* history: the last request to the manager or a publish
                      \* endpoint: which, its argument, HEAD when it started,
                      \* the status answered and the value returned
    tasks,            \* the coroutines in flight on the event loop: where each
                      \* is suspended and the locals it holds
    instances         \* the AsyncGitVersionManager objects of this process:
                      \* how many __init__ has built (objects, numbered from
                      \* 1), those create() has returned (made) and the one
                      \* _git_manager refers to (shared; 0 for None)

vars == <<wrapper, tasks, instances, ckpt, disk, boots, pc, turn, request, state,
          retries, parsed_response,
          planner_log, dispatched, shown, outcome, entry_state, saved_state,
          repo, manager, calls, reply>>

\* what a workflow node other than an Agent or Finalize leaves alone
gitIdle == <<repo, manager, calls>>

\* state.py:41-55  field defaults
DefaultState == ADTState(<< >>, "", "IN_PROGRESS", << >>, -1, << >>,
                         FALSE, FALSE, FALSE, FALSE)

NoResponse == MalformedOutput

\* no coroutine is in flight
NoTasks == << >>

\* instance accounting is kept by the specification of the provider only
NoInstances == [objects |-> 0, made |-> {}, shared |-> 0]

NoReply == [request |-> "", arg |-> "", head |-> "", status |-> "", ret |-> 0]

\* main.py:51-73  the repository and the shared manager once the lifespan
\* start-up has run on the seed checkout without a failure
GitStarted ==
    /\ \E w \in {World(SeedRepo, {})} : \E l \in {Lifespan(w)} :
          /\ repo = Repo(l.w)
          /\ manager = l.m
    /\ calls = << >>
    /\ reply = NoReply

Init ==
    /\ wrapper \in {"chat_edit", "state_store"}
    /\ tasks = NoTasks
    /\ instances = NoInstances
    /\ ckpt = NoCheckpoint
    /\ disk = NoFile
    /\ boots = 0
    /\ pc = "idle"
    /\ turn = 0
    /\ request = ""
    /\ state = DefaultState
    /\ retries = 0
    /\ parsed_response = NoResponse
    /\ planner_log = << >>
    /\ dispatched = << >>
    /\ shown = [plan |-> << >>, turn |-> 0]
    /\ outcome = "none"
    /\ entry_state = DefaultState
    /\ saved_state = DefaultState
    /\ GitStarted

(***************************************************************************)
(* Turn boundaries.                                                        *)
(***************************************************************************)
BeginTurn(user_message, loaded) ==
    /\ pc = "idle"
    /\ turn < MaxTurns
    /\ turn' = turn + 1
    /\ request' = user_message
    /\ state' = loaded
    /\ entry_state' = loaded
    /\ pc' = RouteUserMessage(loaded.plan_shown_to_user)
    /\ retries' = 0
    /\ parsed_response' = NoResponse
    /\ planner_log' = << >>
    /\ dispatched' = << >>
    /\ outcome' = "running"
    /\ calls' = << >>
    /\ UNCHANGED <<wrapper, tasks, instances, ckpt, disk, boots, shown, saved_state, repo, manager, reply>>

\* json.load raised while the checkpoint was read (chat.py:68 lets the
\* JSONDecodeError through, state_loader.py:118-128 re-raises it): the
\* request fails before the workflow starts
LoadRaises(user_message) ==
    /\ pc = "idle"
    /\ turn < MaxTurns
    /\ turn' = turn + 1
    /\ request' = user_message
    /\ retries' = 0
    /\ parsed_response' = NoResponse
    /\ planner_log' = << >>
    /\ dispatched' = << >>
    /\ outcome' = "load_raised"
    /\ UNCHANGED <<wrapper, tasks, instances, ckpt, disk, boots, pc, state, shown, entry_state,
                   saved_state, repo, manager, calls, reply>>

\* chat.py:51-86  /chat/edit: load, then graph.ainvoke
ChatEditBegin ==
    /\ wrapper = "chat_edit"
    /\ \E m \in UserMessages :
          IF ~disk.exists THEN BeginTurn(m, ChatEditLoad(NoCheckpoint, m))
          ELSE IF JsonDecodes(disk.text)
               THEN BeginTurn(m, ChatEditLoad(JsonLoad(disk.text), m))
               ELSE LoadRaises(m)

\* the turn handler built on StateCheckpointManager: load (or create), then
\* graph.ainvoke
StoreTurnBegin ==
    /\ wrapper = "state_store"
    /\ \E m \in UserMessages :
          IF ~disk.exists THEN BeginTurn(m, CreateNewStateCheckpoint(m))
          ELSE IF JsonDecodes(disk.text)
               THEN BeginTurn(m, LoadStateCheckpoint(JsonLoad(disk.text), m))
               ELSE LoadRaises(m)

\* the document the turn handler in use builds from the workflow's output
CheckpointDocument(out) ==
    IF wrapper = "chat_edit" THEN ChatEditSave(out) ELSE SaveStateCheckpoint(out)

\* the graph reached END: the turn handler saves the output
\* (chat.py:109-124, state_loader.py:130-162)
EndTurn(how) ==
    /\ pc' = "idle"
    /\ outcome' = how
    /\ ckpt' = CheckpointDocument(state')
    /\ disk' = FileWritten(ckpt', Len(JsonDump(ckpt')))
    /\ saved_state' = state'

\* an exception left graph.ainvoke: nothing catches it, nothing is saved
RaiseOutOfTurn ==
    /\ pc' = "idle"
    /\ outcome' = "raised"
    /\ UNCHANGED <<ckpt, disk, saved_state>>

\* variant: start-up leaves the checkpoint directory alone
RestartKeepsCheckpoints ==
    /\ pc \in {"idle", "down"}
    /\ boots < MaxRestarts
    /\ boots' = boots + 1
    /\ request' = ""
    /\ state' = DefaultState
    /\ retries' = 0
    /\ parsed_response' = NoResponse
    /\ planner_log' = << >>
    /\ dispatched' = << >>
    /\ entry_state' = DefaultState
    /\ pc' = "idle"
    /\ \E w \in {World(repo, {})} : \E l \in {Lifespan(w)} :
          /\ repo' = Repo(l.w)
          /\ manager' = l.m
          /\ calls' = l.w.log
    /\ UNCHANGED <<wrapper, tasks, instances, ckpt, disk, turn, shown, outcome, saved_state, reply>>

\* main.py:51-73, 287-295  the application starts again: the process memory
\* is new, create_app removes and recreates the checkpoint directory and the
\* lifespan start-up sets the manager up on the repository as it was left
Restart ==
    /\ pc \in {"idle", "down"}
    /\ boots < MaxRestarts
    /\ boots' = boots + 1
    /\ ckpt' = NoCheckpoint
    /\ disk' = NoFile
    /\ pc' = "idle"
    /\ request' = ""
    /\ state' = DefaultState
    /\ retries' = 0
    /\ parsed_response' = NoResponse
    /\ planner_log' = << >>
    /\ dispatched' = << >>
    /\ entry_state' = DefaultState
    /\ shown' = [plan |-> << >>, turn |-> 0]
    /\ saved_state' = DefaultState
    /\ \E w \in {World(repo, {})} : \E l \in {Lifespan(w)} :
          /\ repo' = Repo(l.w)
          /\ manager' = l.m
          /\ calls' = l.w.log
    /\ UNCHANGED <<wrapper, tasks, instances, turn, outcome, reply>>

(***************************************************************************)
(* Workflow nodes (workflows/actions.py) with the conditional edges that   *)
(* follow them (workflows/graph.py).                                       *)
(***************************************************************************)
turnFrame == <<wrapper, tasks, instances, boots, turn, request, shown, entry_state, reply>>

\* variant: the plan being replaced is not kept
ExtendCompletedStepsNone(completed_steps, steps) == completed_steps

\* actions.py:123  state.completed_steps.extend(state.steps)
ExtendCompletedSteps(completed_steps, steps) == completed_steps \o steps

\* actions.py:110-125  plan_steps up to the model call
PlanStepsEnter ==
    /\ pc = "planner"
    /\ state' = [state EXCEPT !.is_irrelevant_query = FALSE,
                              !.is_forbidden_query = FALSE,
                              !.user_query = state.messages[Len(state.messages)].content,
                              !.completed_steps =
                                  ExtendCompletedSteps(state.completed_steps, state.steps),
                              !.steps = << >>,
                              !.current_step_index = -1]
    /\ retries' = 0
    /\ pc' = "planner_call"
    /\ UNCHANGED <<turnFrame, ckpt, disk, saved_state, outcome, parsed_response,
                   planner_log, dispatched>>
    /\ UNCHANGED gitIdle

\* actions.py:167-190  one pass of the retry loop: call the model, parse
PlannerModelCall ==
    /\ pc = "planner_call"
    /\ PlannerLoopRuns(retries)
    /\ \E r \in ModelResponses :
          /\ retries' = retries + 1
          /\ planner_log' = Append(planner_log, r)
          /\ IF ~r.parses
             THEN /\ RaiseOutOfTurn
                  /\ UNCHANGED parsed_response
             ELSE /\ parsed_response' = r
                  /\ pc' = IF PlannerLoopBreaks(r) \/ ~PlannerLoopRuns(retries + 1)
                           THEN "planner_finish" ELSE "planner_call"
                  /\ UNCHANGED <<ckpt, disk, saved_state, outcome>>
    /\ UNCHANGED <<turnFrame, state, dispatched>>
    /\ UNCHANGED gitIdle

\* actions.py:192-223  plan_steps after the loop, then check_valid_query
PlanStepsFinish ==
    /\ pc = "planner_finish"
    /\ LET new_steps == state.steps \o NewPlanningSteps(parsed_response.steps)
           rephrase == new_steps = << >> /\ ~parsed_response.is_irrelevant
                                         /\ ~parsed_response.is_forbidden
           irr == state.is_irrelevant_query \/ parsed_response.is_irrelevant
           forb == state.is_forbidden_query \/ parsed_response.is_forbidden
       IN  /\ state' = [state EXCEPT
                          !.is_irrelevant_query = irr,
                          !.is_forbidden_query = forb,
                          !.steps = new_steps,
                          !.messages = IF rephrase
                                       THEN Append(@, SystemMessage("rephrase_query"))
                                       ELSE @]
           /\ pc' = CheckValidQuery(irr, forb, new_steps, state.plan_accepted)
    /\ UNCHANGED <<turnFrame, ckpt, disk, saved_state, outcome, retries, parsed_response,
                   planner_log, dispatched>>
    /\ UNCHANGED gitIdle

\* actions.py:226-243 and graph.py:72-79.  The edge out of the node uses the
\* node function itself as its path function; its return value, a dict, is
\* looked up in the edge's path map, which raises.
RephraseQuery ==
    /\ pc = "rephrase_query"
    /\ state' = [state EXCEPT !.messages = Append(@, AIMessage("rephrase_query"))]
    /\ RaiseOutOfTurn
    /\ UNCHANGED <<turnFrame, retries, parsed_response, planner_log, dispatched>>
    /\ UNCHANGED gitIdle

\* actions.py:267-283 and graph.py:150
ShowPlanToUser ==
    /\ pc = "show_plan"
    /\ state' = [state EXCEPT !.messages = Append(@, AIMessage("plan_display")),
                              !.plan_shown_to_user = TRUE]
    /\ shown' = [plan |-> state.steps, turn |-> turn]
    /\ EndTurn("show_plan")
    /\ UNCHANGED <<wrapper, tasks, instances, boots, turn, request, entry_state, retries,
                   parsed_response, planner_log, dispatched>>
    /\ UNCHANGED <<gitIdle, reply>>

\* actions.py:398-425 and graph.py:151
AddNonValidMessage ==
    /\ pc = "non_valid_message"
    /\ IF state.is_forbidden_query
       THEN /\ state' = [state EXCEPT !.messages = Append(@, AIMessage("forbidden_query"))]
            /\ EndTurn("non_valid_message")
       ELSE IF state.is_irrelevant_query
       THEN /\ state' = [state EXCEPT !.messages = Append(@, AIMessage("irrelevant_query"))]
            /\ EndTurn("non_valid_message")
       ELSE /\ RaiseOutOfTurn
            /\ UNCHANGED state
    /\ UNCHANGED <<turnFrame, retries, parsed_response, planner_log, dispatched>>
    /\ UNCHANGED gitIdle

\* actions.py:286-365  handle_plan_response, then should_adjust_plan
HandlePlanResponse ==
    /\ pc = "handle_plan_response"
    /\ \E r \in ModelResponses :
          /\ planner_log' = Append(planner_log, r)
          /\ IF ~r.parses
             THEN /\ RaiseOutOfTurn
                  /\ UNCHANGED <<state, parsed_response>>
             ELSE /\ parsed_response' = r
                  /\ state' = [state EXCEPT !.plan_accepted = ReplanAccepted(r),
                                            !.steps = ReplanSteps(state.steps, r)]
                  /\ pc' = ShouldAdjustPlan(ReplanAccepted(r))
                  /\ UNCHANGED <<ckpt, disk, saved_state, outcome>>
    /\ UNCHANGED <<turnFrame, retries, dispatched>>
    /\ UNCHANGED gitIdle

\* actions.py:368-395  execute_next_step, then route_to_agent (graph.py:88-101)
ExecuteNextStep ==
    /\ pc = "execute_step"
    /\ state' = [state EXCEPT !.current_step_index = @ + 1]
    /\ LET dest == RouteToAgent(state.steps, state.current_step_index + 1)
       IN  CASE dest = "__end__" ->
                   /\ EndTurn("__end__")
                   /\ UNCHANGED dispatched
             [] dest = "IndexError" ->
                   /\ RaiseOutOfTurn
                   /\ UNCHANGED dispatched
             [] dest = "finalize_task" ->
                   /\ pc' = dest
                   /\ UNCHANGED <<ckpt, disk, saved_state, outcome, dispatched>>
             [] OTHER ->
                   /\ pc' = dest
                   /\ dispatched' = Append(dispatched, state.current_step_index + 1)
                   /\ UNCHANGED <<ckpt, disk, saved_state, outcome>>
    /\ UNCHANGED <<turnFrame, retries, parsed_response, planner_log>>
    /\ UNCHANGED gitIdle

\* the Agent sub-workflow of the dispatched Step runs and returns, then
\* should_continue_execution (graph.py:102-149)
AgentReturn ==
    /\ pc \in AgentNodes
    /\ \E o \in AgentOutcomes(pc) :
          IF o.raises
          THEN /\ RaiseOutOfTurn
               /\ UNCHANGED <<state, repo>>
          ELSE /\ repo' = IF o.writes THEN [repo EXCEPT !.worktree = NewContent(repo)]
                          ELSE repo
               /\ state' = [state EXCEPT
                              !.messages = @ \o o.msgs,
                              !.steps =
                                  IF o.sets_success
                                  THEN SetStepStatus(
                                           SetTextEdits(@, state.current_step_index, o.text_edits),
                                           state.current_step_index, "SUCCESS")
                                  ELSE SetTextEdits(@, state.current_step_index, o.text_edits)]
               /\ IF ShouldContinueExecution(state.steps, state.current_step_index) = "execute_step"
                  THEN /\ pc' = "execute_step"
                       /\ UNCHANGED <<ckpt, disk, saved_state, outcome>>
                  ELSE EndTurn("__end__")
    /\ UNCHANGED <<turnFrame, retries, parsed_response, planner_log, dispatched>>
    /\ UNCHANGED <<manager, calls>>

\* actions.py:428-453 and graph.py:152.  The formatter and the git helper
\* catch their own failures and do not touch the Session; contents are
\* taken up to formatting.
FinalizeTaskExecution ==
    /\ pc = "finalize_task"
    /\ state' = [state EXCEPT !.plan_shown_to_user = FALSE, !.status = "SUCCESS"]
    /\ \E F \in FaultSets(FinalizeSubprocesses) :
       \E w \in {World(repo, F)} : \E g \in {FinalizeGitOperations(manager, w)} :
          /\ repo' = Repo(g.w)
          /\ manager' = g.m
          /\ calls' = g.w.log
    /\ EndTurn("finalize_task")
    /\ UNCHANGED <<turnFrame, retries, parsed_response, planner_log, dispatched>>

Next ==
    \/ ChatEditBegin
    \/ StoreTurnBegin
    \/ PlanStepsEnter
    \/ PlannerModelCall
    \/ PlanStepsFinish
    \/ RephraseQuery
    \/ ShowPlanToUser
    \/ AddNonValidMessage
    \/ HandlePlanResponse
    \/ ExecuteNextStep
    \/ AgentReturn
    \/ FinalizeTaskExecution
    \/ Restart

Spec == Init /\ [][Next]_vars

(***************************************************************************)
(* check_valid_query as a function of the Session it is given              *)
(* (tests/test_workflow_routes.py builds such Sessions directly).          *)
(***************************************************************************)
InitQuery ==
    /\ wrapper \in {"chat_edit", "state_store"}
    /\ tasks = NoTasks
    /\ instances = NoInstances
    /\ ckpt = NoCheckpoint
    /\ disk = NoFile
    /\ boots = 0
    /\ pc = "check_valid_query"
    /\ turn = 0
    /\ request = ""
    /\ \E irr \in BOOLEAN, forb \in BOOLEAN, ss \in PlanSet, pa \in BOOLEAN :
          state = [DefaultState EXCEPT !.is_irrelevant_query = irr,
                                       !.is_forbidden_query = forb,
                                       !.steps = ss,
                                       !.plan_accepted = pa]
    /\ retries = 0
    /\ parsed_response = NoResponse
    /\ planner_log = << >>
    /\ dispatched = << >>
    /\ shown = [plan |-> << >>, turn |-> 0]
    /\ outcome = "none"
    /\ entry_state = DefaultState
    /\ saved_state = DefaultState
    /\ GitStarted

\* routes.py:31-55 applied to the Session
CheckValidQueryApply ==
    /\ pc = "check_valid_query"
    /\ pc' = CheckValidQuery(state.is_irrelevant_query, state.is_forbidden_query,
                             state.steps, state.plan_accepted)
    /\ UNCHANGED <<wrapper, tasks, instances, ckpt, disk, boots, turn, request, state, retries,
                   parsed_response, planner_log, dispatched, shown, outcome,
                   entry_state, saved_state, repo, manager, calls, reply>>

NextQuery == CheckValidQueryApply

SpecQuery == InitQuery /\ [][NextQuery]_vars

(***************************************************************************)
(* The save at the end of a turn when it does not run to completion: the   *)
(* process stops, or a write raises, after some of the pieces are written. *)
(***************************************************************************)
\* Sessions as show_plan leaves them at the end of a turn
SaveSessions ==
    {[DefaultState EXCEPT !.messages = <<HumanMessage(m), AIMessage("plan_display")>>,
                          !.user_query = m,
                          !.steps = ss,
                          !.plan_shown_to_user = TRUE] :
        m \in UserMessages, ss \in PlanSet \ {EmptyPlan}}

InitSave ==
    /\ wrapper \in {"chat_edit", "state_store"}
    /\ tasks = NoTasks
    /\ instances = NoInstances
    /\ \E hasPrevious \in BOOLEAN, previous \in SaveSessions :
          /\ ckpt = IF hasPrevious THEN CheckpointDocument(previous) ELSE NoCheckpoint
          /\ disk = IF hasPrevious THEN FileWritten(ckpt, Len(JsonDump(ckpt))) ELSE NoFile
          /\ saved_state = IF hasPrevious THEN previous ELSE DefaultState
    /\ boots = 0
    /\ pc = "save"
    /\ turn = 1
    /\ state \in SaveSessions
    /\ request = state.user_query
    /\ retries = 0
    /\ parsed_response = NoResponse
    /\ planner_log = << >>
    /\ dispatched = << >>
    /\ shown = [plan |-> state.steps, turn |-> 1]
    /\ outcome = "running"
    /\ entry_state = DefaultState
    /\ GitStarted

\* state_loader.py:156-162 / chat.py:118-122: open(path, "w") truncates the
\* file, json.dump writes the pieces.  The save completes, or a write raises
\* and the handler fails, or the process stops.
SaveCheckpointFile ==
    /\ pc = "save"
    /\ LET doc == CheckpointDocument(state)
           n == Len(JsonDump(doc))
       IN  \/ /\ disk' = FileWritten(doc, n)
              /\ ckpt' = doc
              /\ saved_state' = state
              /\ pc' = "idle"
              /\ outcome' = "saved"
           \/ \E written \in 0..(n - 1) :
                 /\ disk' = FileWritten(doc, written)
                 /\ \/ pc' = "idle" /\ outcome' = "save_raised"
                    \/ pc' = "down" /\ outcome' = "crashed"
                 /\ UNCHANGED <<ckpt, saved_state>>
    /\ UNCHANGED <<wrapper, tasks, instances, boots, turn, request, state, retries, parsed_response,
                   planner_log, dispatched, shown, entry_state, repo, manager, calls,
                   reply>>

NextSave ==
    \/ SaveCheckpointFile
    \/ ChatEditBegin
    \/ StoreTurnBegin
    \/ Restart

SpecSave == InitSave /\ [][NextSave]_vars

(***************************************************************************)
(* The publish endpoints (api/routes/publish.py) on the repository, with   *)
(* the files under OUTPUT_DIR changing between requests.                   *)
(***************************************************************************)
\* the variables of the chat session
sessionFrame == <<wrapper, ckpt, disk, boots, pc, turn, request, state, retries,
                  parsed_response, planner_log, dispatched, shown, outcome,
                  entry_state, saved_state>>

sessionVars == <<sessionFrame, tasks, instances>>

\* no chat turn has run and none is running
SessionIdle ==
    /\ wrapper = "chat_edit"
    /\ ckpt = NoCheckpoint
    /\ disk = NoFile
    /\ boots = 0
    /\ pc = "idle"
    /\ turn = 0
    /\ request = ""
    /\ state = DefaultState
    /\ retries = 0
    /\ parsed_response = NoResponse
    /\ planner_log = << >>
    /\ dispatched = << >>
    /\ shown = [plan |-> << >>, turn |-> 0]
    /\ outcome = "none"
    /\ entry_state = DefaultState
    /\ saved_state = DefaultState

\* main.py:51-73  the lifespan start-up has run, on a repository or on a
\* directory without one, with or without a subprocess failing
InitPublish ==
    /\ SessionIdle
    /\ tasks = NoTasks
    /\ instances = NoInstances
    /\ \E r \in {SeedRepo, NoRepo}, F \in FaultSets(LifespanSubprocesses) :
       \E w \in {World(r, F)} : \E l \in {Lifespan(w)} :
          /\ repo = Repo(l.w)
          /\ manager = l.m
          /\ calls = l.w.log
    /\ reply = NoReply

\* the subprocesses a request that runs at most n once it holds the
\* instance may see fail
RequestFaultSets(n) == FaultSets(IF manager.set THEN n ELSE n + CreateSubprocesses)

\* a request handler ran on the repository and answered
Answered(name, arg, r) ==
    /\ repo' = Repo(r.w)
    /\ manager' = r.m
    /\ calls' = r.w.log
    /\ reply' = [request |-> name, arg |-> arg, head |-> repo.head.ref,
                 status |-> r.status, ret |-> 0]
    /\ UNCHANGED sessionVars

\* POST /publish
PublishChanges ==
    /\ pc = "idle"
    /\ Len(repo.commits) + 2 <= MaxCommits
    /\ \E F \in RequestFaultSets(PublishSubprocesses) :
       \E w \in {World(repo, F)} : \E r \in {PublishChangesHandler(manager, w)} :
          Answered("publish", "", r)

\* POST /publish/checkout-commit with a hash of the repository, or with one
\* that names no commit (0)
CheckoutCommitEndpoint ==
    /\ pc = "idle"
    /\ \E commit_hash \in 0..Len(repo.commits), F \in RequestFaultSets(CheckoutSubprocesses) :
       \E w \in {World(repo, F)} : \E r \in {CheckoutCommitHandler(manager, w, commit_hash)} :
          Answered("publish/checkout-commit", "", r)

\* files under OUTPUT_DIR are rewritten between two requests (by the Agents
\* of a chat turn or by hand)
EditFiles ==
    /\ pc = "idle"
    /\ \E t \in 0..MaxTree :
          /\ t # repo.worktree
          /\ repo' = [repo EXCEPT !.worktree = t]
    /\ calls' = << >>
    /\ reply' = [NoReply EXCEPT !.request = "edit"]
    /\ UNCHANGED <<sessionVars, manager>>

NextPublish ==
    \/ PublishChanges
    \/ CheckoutCommitEndpoint
    \/ EditFiles

SpecPublish == InitPublish /\ [][NextPublish]_vars

(***************************************************************************)
(* The provider of the shared manager under overlapping requests           *)
(* (core/git_manager_provider.py).  Request handlers are coroutines on one *)
(* event loop: a handler runs until it awaits, and create() awaits its     *)
(* set-up subprocesses, so other handlers run between the test of          *)
(* _git_manager and the assignment to it.                                  *)
(***************************************************************************)
\* the request handlers that may be in flight together
MaxCallers == 2

\* the requests each of them serves one after the other
MaxCalls == 2

Callers == 1..MaxCallers

\* a handler that has not called get_git_manager yet
Waiting(served) == [at |-> "idle", self |-> 0, got |-> 0, served |-> served]

\* main.py:51-73  the lifespan start-up has run before any request
InitProvider ==
    /\ SessionIdle
    /\ \E r \in {SeedRepo, NoRepo}, F \in FaultSets(LifespanSubprocesses) :
       \E w \in {World(r, F)} : \E l \in {Lifespan(w)} :
          /\ repo = Repo(l.w)
          /\ manager = l.m
          /\ calls = l.w.log
          /\ instances = [objects |-> IF r.is_repo THEN 1 ELSE 0,
                          made |-> IF l.m.set THEN {1} ELSE {},
                          shared |-> IF l.m.set THEN 1 ELSE 0]
    /\ tasks = [t \in Callers |-> Waiting(0)]
    /\ reply = NoReply

providerFrame == <<sessionFrame, repo, calls, reply>>

\* git_manager_provider.py:19-30 up to the await: the test of _git_manager,
\* then __init__ (git_version_manager.py:28-43), which raises when
\* OUTPUT_DIR holds no repository
GetGitManagerEnter(t) ==
    /\ tasks[t].at = "idle"
    /\ IF instances.shared # 0
       THEN /\ tasks' = [tasks EXCEPT ![t].at = "returned", ![t].got = instances.shared]
            /\ UNCHANGED <<instances, manager>>
       ELSE IF ~repo.is_repo
       THEN /\ tasks' = [tasks EXCEPT ![t].at = "returned", ![t].got = 0]
            /\ instances' = [instances EXCEPT !.shared = 0]
            /\ manager' = NoManager
       ELSE /\ tasks' = [tasks EXCEPT ![t].at = "create",
                                      ![t].self = instances.objects + 1]
            /\ instances' = [instances EXCEPT !.objects = @ + 1]
            /\ UNCHANGED manager
    /\ UNCHANGED providerFrame

\* git_manager_provider.py:22-30 from the await on: setup() has run its
\* subprocesses; the object is assigned to _git_manager and returned, or
\* the exception is caught, _git_manager is assigned None and None returned
GetGitManagerReturn(t) ==
    /\ tasks[t].at = "create"
    /\ \E F \in FaultSets(CreateSubprocesses) :
       \E w \in {World(repo, F)} : \E s \in {SetupRemote(w)} :
          IF s.ok
          THEN /\ tasks' = [tasks EXCEPT ![t].at = "returned", ![t].got = tasks[t].self]
               /\ instances' = [instances EXCEPT !.made = @ \cup {tasks[t].self},
                                                 !.shared = tasks[t].self]
               /\ manager' = [set |-> TRUE, true_branch_name |-> ""]
          ELSE /\ tasks' = [tasks EXCEPT ![t].at = "returned", ![t].got = 0]
               /\ instances' = [instances EXCEPT !.shared = 0]
               /\ manager' = NoManager
    /\ UNCHANGED providerFrame

\* the handler has answered; the next request it serves calls again
NextRequest(t) ==
    /\ tasks[t].at = "returned"
    /\ tasks[t].served + 1 < MaxCalls
    /\ tasks' = [tasks EXCEPT ![t] = Waiting(tasks[t].served + 1)]
    /\ UNCHANGED <<instances, manager, providerFrame>>

NextProvider ==
    \/ \E t \in Callers : GetGitManagerEnter(t)
    \/ \E t \in Callers : GetGitManagerReturn(t)
    \/ \E t \in Callers : NextRequest(t)

SpecProvider == InitProvider /\ [][NextProvider]_vars

(***************************************************************************)
(* Sessions that finalize at the same time (actions.py:502-545).  Each     *)
(* git subprocess is awaited (git_version_manager.py:134-144), so the      *)
(* subprocesses of two turns on the shared repository interleave.  The     *)
(* content of the files is the set of Sessions whose Agents have written,  *)
(* as a bit mask.                                                          *)
(***************************************************************************)
\* the Sessions whose turns run together
MaxSessions == 2

Sessions == 1..MaxSessions

RECURSIVE Pow2(_)
Pow2(n) == IF n = 0 THEN 1 ELSE 2 * Pow2(n - 1)

\* the content holds what the Agents of Session t wrote
HasEdits(tree, t) == tree >= 0 /\ (tree \div Pow2(t - 1)) % 2 = 1

\* the content once the Agents of Session t have written to it
WithEdits(tree, t) == IF HasEdits(tree, t) THEN tree ELSE tree + Pow2(t - 1)

\* a turn whose Agent is about to write the files it edits
Finalizing == [at |-> "agent", current_branch |-> "", tag |-> 0, commits |-> << >>,
               made |-> 0, over |-> {}]

\* variant: the git section of Finalize is entered by one Session at a time
MayRunExclusive(t) ==
    \A u \in Sessions \ {t} : tasks[u].at \in {"agent", "add", "done"}

\* actions.py:502-545  nothing keeps a turn from running its next git
\* subprocess while another turn is between two of its own
MayRun(t) == TRUE

\* Sessions between their `git add .` and their `git commit`
Staged == {u \in Sessions : tasks[u].at \in {"diff", "commit"}}

InitRace ==
    /\ SessionIdle
    /\ GitStarted
    /\ instances = NoInstances
    /\ tasks = [t \in Sessions |-> Finalizing]

raceFrame == <<sessionFrame, instances, manager, calls, reply>>

\* the world a subprocess of the turn runs in
Now == World(repo, {})

\* text_edit_agent/actions.py:141-150  the Agent of the turn writes files
AgentWrites(t) ==
    /\ tasks[t].at = "agent"
    /\ repo' = [repo EXCEPT !.worktree = WithEdits(@, t)]
    /\ tasks' = [tasks EXCEPT ![t].at = "add"]
    /\ UNCHANGED raceFrame

\* git_version_manager.py:177  git add .
FinalizeAdd(t) ==
    /\ tasks[t].at = "add"
    /\ MayRun(t)
    /\ \E a \in {GitAdd(Now)} :
          /\ repo' = Repo(a.w)
          /\ tasks' = [tasks EXCEPT ![t].at = IF a.ok THEN "diff" ELSE "branch"]
    /\ UNCHANGED raceFrame

\* git_version_manager.py:178-187  git diff --cached against HEAD
FinalizeDiff(t) ==
    /\ tasks[t].at = "diff"
    /\ MayRun(t)
    /\ tasks' = [tasks EXCEPT ![t].at = IF GitDiffCached(Now) = 0 THEN "branch"
                                        ELSE "commit"]
    /\ UNCHANGED <<repo, raceFrame>>

\* git_version_manager.py:189-192  git commit; the RuntimeError of a failed
\* commit is caught at actions.py:525-527
FinalizeCommit(t) ==
    /\ tasks[t].at = "commit"
    /\ MayRun(t)
    /\ \E c \in {GitCommit(Now, FALSE, "commit_changes")} :
          /\ repo' = Repo(c.w)
          /\ tasks' = [tasks EXCEPT ![t].at = "branch",
                                    ![t].made = IF c.ok THEN c.out ELSE 0]
    /\ UNCHANGED raceFrame

\* actions.py:531  current_branch()
FinalizeCurrentBranch(t) ==
    /\ tasks[t].at = "branch"
    /\ MayRun(t)
    /\ \E r \in {GitAbbrevRef(Now)} :
          tasks' = [tasks EXCEPT ![t].at = IF r.ok THEN "list_checkout" ELSE "checkout",
                                 ![t].current_branch = r.out]
    /\ UNCHANGED <<repo, raceFrame>>

\* git_version_manager.py:226  list_commits: git checkout <branch>
FinalizeListCheckout(t) ==
    /\ tasks[t].at = "list_checkout"
    /\ MayRun(t)
    /\ \E co \in {GitCheckout(Now, tasks[t].current_branch)} :
          /\ repo' = Repo(co.w)
          /\ tasks' = [tasks EXCEPT ![t].at = IF co.ok THEN "list_tag" ELSE "checkout"]
    /\ UNCHANGED raceFrame

\* git_version_manager.py:228-235  list_commits: git rev-parse last_published
FinalizeListTag(t) ==
    /\ tasks[t].at = "list_tag"
    /\ MayRun(t)
    /\ \E p \in {GitRevParseTag(Now)} :
          tasks' = [tasks EXCEPT ![t].at = IF p.ok THEN "list_log" ELSE "checkout",
                                 ![t].tag = p.out]
    /\ UNCHANGED <<repo, raceFrame>>

\* git_version_manager.py:237-249  list_commits: git log last_published..HEAD
FinalizeListLog(t) ==
    /\ tasks[t].at = "list_log"
    /\ MayRun(t)
    /\ \E l \in {GitLog(Now, repo.head.commit, tasks[t].tag, ListLimit)} :
          tasks' = [tasks EXCEPT ![t].at = "checkout",
                                 ![t].commits = IF l.ok THEN Reverse(l.out) ELSE << >>]
    /\ UNCHANGED <<repo, raceFrame>>

\* actions.py:538-545  git checkout -f of the newest commit listed
FinalizeCheckout(t) ==
    /\ tasks[t].at = "checkout"
    /\ MayRun(t)
    /\ IF tasks[t].commits = << >>
       THEN /\ tasks' = [tasks EXCEPT ![t].at = "done"]
            /\ UNCHANGED repo
       ELSE \E c \in {GitCheckoutForce(Now, tasks[t].commits[Len(tasks[t].commits)])} :
               /\ repo' = Repo(c.w)
               /\ tasks' = [tasks EXCEPT ![t].at = "done",
                                         ![t].over = Staged \ {t}]
    /\ UNCHANGED raceFrame

\* the next subprocess of the turn of Session t
RaceStep(t) ==
    \/ FinalizeAdd(t)
    \/ FinalizeDiff(t)
    \/ FinalizeCommit(t)
    \/ FinalizeCurrentBranch(t)
    \/ FinalizeListCheckout(t)
    \/ FinalizeListTag(t)
    \/ FinalizeListLog(t)
    \/ FinalizeCheckout(t)

NextRace ==
    \/ \E t \in Sessions : AgentWrites(t)
    \/ \E t \in Sessions : FinalizeAdd(t)
    \/ \E t \in Sessions : FinalizeDiff(t)
    \/ \E t \in Sessions : FinalizeCommit(t)
    \/ \E t \in Sessions : FinalizeCurrentBranch(t)
    \/ \E t \in Sessions : FinalizeListCheckout(t)
    \/ \E t \in Sessions : FinalizeListTag(t)
    \/ \E t \in Sessions : FinalizeListLog(t)
    \/ \E t \in Sessions : FinalizeCheckout(t)

SpecRace == InitRace /\ [][NextRace]_vars

(***************************************************************************)
(* Properties.                                                             *)
(***************************************************************************)
\* the Steps as planned and displayed: without the status and the edits the
\* Agents record on them while they run
StripStatus(ss) ==
    [i \in 1..Len(ss) |-> [ss[i] EXCEPT !.status = "PENDING", !.text_edits = "None"]]

TurnEnded == pc = "idle" /\ outcome \notin {"none", "running"}

\* the turn was routed to handle_plan_response (a plan had been shown)
ReplanTurn == turn >= 1 /\ entry_state.plan_shown_to_user

\* the turn was routed to plan_steps
PlanningTurn == turn >= 1 /\ ~entry_state.plan_shown_to_user

EmptyUnflagged(r) ==
    r.parses /\ ~r.is_irrelevant /\ ~r.is_forbidden /\ r.steps = << >>

Flagged(r) == r.parses /\ (r.is_irrelevant \/ r.is_forbidden)

\* C1: a turn in which the reply to a shown plan leaves it accepted
\* (modified = false) and the plan has n >= 1 Steps dispatches every Step,
\* enters Finalize after the last Agent returns and ends with status SUCCESS.
C1_AcceptedPlanIsFinalized ==
    (/\ TurnEnded
     /\ outcome # "raised"
     /\ ReplanTurn
     /\ parsed_response.parses
     /\ ~parsed_response.modified
     /\ Len(state.steps) >= 1)
    => /\ dispatched = [i \in 1..Len(state.steps) |-> i - 1]
       /\ outcome = "finalize_task"
       /\ state.status = "SUCCESS"

\* C2: after planning the route is: rejection if either flag is set; else
\* rephrase-request if steps is empty; else show-plan if plan_accepted is
\* false; else execute_step.
C2_RouteAfterPlanning ==
    pc # "check_valid_query" =>
        pc = IF state.is_irrelevant_query \/ state.is_forbidden_query
                THEN "non_valid_message"
             ELSE IF state.steps = << >> THEN "rephrase_query"
             ELSE IF ~state.plan_accepted THEN "show_plan"
             ELSE "execute_step"

C4_FlaggedOutputIsRejected ==
    (/\ TurnEnded
     /\ outcome # "raised"
     /\ \E i \in 1..Len(planner_log) : Flagged(planner_log[i]))
    => /\ dispatched = << >>
       /\ outcome = "non_valid_message"
       /\ state.steps = IF ReplanTurn THEN entry_state.steps ELSE << >>

\* C5: initial planning calls the model at most 3 times per turn, stops at
\* the first response with a flag or a non-empty Step list and uses that
\* response; the third response is still used (no rephrase message when it
\* carries a plan), and the rephrase route is taken only after 3 empty ones.
C5_PlannerRetryLoop ==
    PlanningTurn =>
       /\ Len(planner_log) <= 3
       /\ retries = Len(planner_log)
       /\ \A i \in 1..(Len(planner_log) - 1) : EmptyUnflagged(planner_log[i])
       /\ pc \in {"show_plan", "non_valid_message", "rephrase_query"} =>
             LET last == planner_log[Len(planner_log)]
             IN  /\ state.steps = last.steps
                 /\ (last.steps # << >> =>
                        state.messages = entry_state.messages)
                 /\ (EmptyUnflagged(last) =>
                        /\ Len(planner_log) = 3
                        /\ pc = "rephrase_query")

C5_Witness ==
    /\ PlanningTurn
    /\ pc = "show_plan"
    /\ Len(planner_log) = 3
    /\ EmptyUnflagged(planner_log[1])
    /\ EmptyUnflagged(planner_log[2])
    /\ state.steps = PlanTextDelete

\* C6: when every Planner response of a turn is empty or malformed, the turn
\* ends normally at the rephrase-request terminal with a rephrase message
\* appended; no exception reaches the caller.
C6_EmptyOrMalformedEndsInRephrase ==
    (/\ TurnEnded
     /\ PlanningTurn
     /\ planner_log # << >>
     /\ \A i \in 1..Len(planner_log) :
           EmptyUnflagged(planner_log[i]) \/ ~planner_log[i].parses)
    => /\ outcome = "rephrase_query"
       /\ state.messages[Len(state.messages)].content = "rephrase_query"

C9_TurnResumesPreviousState ==
    (pc \in {"planner", "handle_plan_response"} /\ ckpt.exists)
    => /\ state.steps = saved_state.steps
       /\ state.completed_steps = saved_state.completed_steps
       /\ state.plan_shown_to_user = saved_state.plan_shown_to_user
       /\ (saved_state.plan_shown_to_user => pc = "handle_plan_response")

PreviousFile == IF ckpt.exists THEN FileWritten(ckpt, Len(JsonDump(ckpt))) ELSE NoFile

\* C11: when a save is interrupted (the process stops or a write raises),
\* the checkpoint file is afterwards the complete previous checkpoint or the
\* complete new one, and the load of the next turn parses it.
C11_InterruptedSaveLeavesWholeFile ==
    /\ (outcome \in {"crashed", "save_raised"} /\ boots = 0) =>
           \/ disk = PreviousFile
           \/ disk = FileWritten(CheckpointDocument(state),
                                 Len(JsonDump(CheckpointDocument(state))))
    /\ outcome # "load_raised"

(***************************************************************************)
(* The version-control operations and the publish endpoint.                *)
(***************************************************************************)
\* positions in the log of the last request where the operation was called
CallsOf(op) == {i \in 1..Len(calls) : calls[i].op = op}

\* a commit made by commit_changes whose tree is the tree of its parent
EmptyCommits(r) ==
    {c \in 1..Len(r.commits) :
        /\ r.commits[c].via = "commit_changes"
        /\ r.commits[c].tree = TreeOf(r, r.commits[c].parent)}

\* C12: commit_changes creates a commit and returns true only when the
\* staged tree differs from HEAD: no commit it made has the tree of its
\* parent, it returns true exactly when it made one commit, of the changed
\* files, and a second call right after a call that returned makes no commit
\* and does not return true.
C12_CommitOnlyWhenStagedTreeDiffers ==
    /\ EmptyCommits(repo) = {}
    /\ (manager.set /\ repo.is_repo) =>
          \A F \in FaultSets(3) :
          \A w \in {World(repo, F)} : \A first \in {CommitChanges(w)} :
          \A made \in {Len(first.w.commits) - Len(repo.commits)} :
                 /\ made \in {0, 1}
                 /\ (made = 1) <=> (first.ok /\ first.ret)
                 /\ (made = 1) =>
                       /\ repo.worktree # HeadTree(repo)
                       /\ first.w.commits[Len(first.w.commits)].tree = repo.worktree
                       /\ EmptyCommits(first.w) = {}
                 /\ first.ok =>
                       \A G \in FaultSets(3) :
                       \A again \in {World(Repo(first.w), G)} :
                       \A second \in {CommitChanges(again)} :
                              /\ second.w.commits = first.w.commits
                              /\ second.ok => ~second.ret

\* commit_changes found nothing to commit in a repository where an earlier
\* call had committed
C12_Witness ==
    /\ reply.request = "publish"
    /\ \E i \in CallsOf("commit_changes") : calls[i].ok /\ ~calls[i].ret
    /\ \E c \in 1..Len(repo.commits) : repo.commits[c].via = "commit_changes"

\* the commits reachable from HEAD and not from the tag last_published
SinceLastPublished(r) ==
    {c \in 1..Len(r.commits) :
        IsAncestor(r, c, r.head.commit) /\ ~IsAncestor(r, c, r.tag)}

\* C13: list_commits(since_last_push=true) on the branch checked out returns
\* the empty list without raising when the tag last_published does not
\* exist, whatever subprocess fails after the checkout; when the tag exists
\* and no subprocess fails it returns the commits of last_published..HEAD,
\* oldest first.
C13_ListSinceLastPublished ==
    (manager.set /\ repo.is_repo) =>
       \A F \in FaultSets(3) :
       \A w \in {World(repo, F)} :
       \A listed \in {ListCommits(w, repo.head.ref, ListLimit, TRUE)} :
          LET checked_out == \E i \in 1..Len(listed.w.log) :
                                listed.w.log[i].op = "checkout_branch" /\ listed.w.log[i].ok
          IN  /\ (repo.tag = 0 /\ checked_out) => (listed.ok /\ listed.ret = << >>)
              /\ (repo.tag # 0 /\ F = {}) =>
                    /\ listed.ok
                    /\ {listed.ret[i] : i \in 1..Len(listed.ret)} = SinceLastPublished(repo)
                    /\ Len(listed.ret) = Cardinality(SinceLastPublished(repo))
                    /\ \A i, j \in 1..Len(listed.ret) :
                          i < j => IsAncestor(repo, listed.ret[i], listed.ret[j])

\* a publish request listed nothing, the tag being absent although the bot
\* has committed on the branch
C13_Witness ==
    /\ reply.request = "publish"
    /\ repo.tag = 0
    /\ \E i \in CallsOf("list_commits") : calls[i].ok /\ ~calls[i].ret
    /\ \E c \in 1..Len(repo.commits) :
          /\ repo.commits[c].author = "bot@example.com"
          /\ IsAncestor(repo, c, repo.head.commit)

\* C14: a safe_push(branch) that returns, called with HEAD detached at c,
\* leaves the branch at c locally and on origin and checked out; called on
\* a branch it moves no local pointer and origin takes the branch's tip.
C14_SafePushReconcilesDetachedHead ==
    (manager.set /\ repo.is_repo) =>
       \A branch_name \in BranchNames, F \in FaultSets(5) :
       \A w \in {World(repo, F)} : \A pushed \in {SafePush(w, branch_name)} :
              pushed.ok =>
                 IF repo.head.ref = "HEAD"
                 THEN /\ pushed.w.branches[branch_name] = repo.head.commit
                      /\ pushed.w.origin[branch_name] = repo.head.commit
                      /\ pushed.w.head = [ref |-> branch_name, commit |-> repo.head.commit]
                 ELSE /\ pushed.w.branches = repo.branches
                      /\ pushed.w.head = repo.head
                      /\ pushed.w.origin =
                            [repo.origin EXCEPT ![branch_name] = repo.branches[branch_name]]

\* a publish request that started on a detached HEAD pushed the working
\* branch, which is checked out since
C14_Witness ==
    /\ reply.request = "publish"
    /\ reply.head = "HEAD"
    /\ \E i \in CallsOf("force_branch_to_current_commit") : calls[i].ok
    /\ \E i \in CallsOf("safe_push") : calls[i].ok
    /\ repo.head.ref = manager.true_branch_name

\* C15: within a publish request create_pull_request is called only after
\* pull_request_exists returned false in the same request, for the branch
\* the pull request is created for; no branch ever gets a second pull
\* request.
C15_PullRequestCreatedAfterCheck ==
    /\ \A i \in CallsOf("create_pull_request") :
          \E j \in CallsOf("pull_request_exists") :
             /\ j < i
             /\ calls[j].ok
             /\ ~calls[j].ret
             /\ calls[i].ok => calls[j].arg = calls[i].arg
    /\ \A b \in BranchNames : repo.prs_created[b] <= 1

\* a later publish request found the pull request of an earlier one and
\* created none
C15_Witness ==
    /\ reply.request = "publish"
    /\ reply.status = "published"
    /\ \E j \in CallsOf("pull_request_exists") : calls[j].ok /\ calls[j].ret
    /\ CallsOf("create_pull_request") = {}
    /\ \E b \in BranchNames : repo.prs_created[b] = 1

\* the git steps of Finalize, in the order the helper runs them
FinalizeSteps == {"commit_changes", "current_branch", "list_commits", "checkout_commit"}

\* no git step of Finalize is attempted after one that failed
StopsAtFailure(log) ==
    \A i, j \in 1..Len(log) :
       (i < j /\ log[i].op \in FinalizeSteps /\ ~log[i].ok) => log[j].op \notin FinalizeSteps

\* the helper goes on after a commit that failed: it always asks for the
\* branch, lists the commits when it got the branch, and checks out exactly
\* when the list is not empty
ContinuesAfterFailure(log) ==
    LET At(op) == {i \in 1..Len(log) : log[i].op = op}
    IN  /\ At("commit_changes") # {}
        /\ \E i \in At("commit_changes"), j \in At("current_branch") : i < j
        /\ (\E j \in At("current_branch") : log[j].ok) => At("list_commits") # {}
        /\ (At("checkout_commit") # {}) <=>
              (\E k \in At("list_commits") : log[k].ok /\ log[k].ret)

PublishSteps == {"list_commits", "commit_changes", "safe_push",
                 "tag_last_published_commit", "pull_request_exists",
                 "create_pull_request"}

Collaborator(agent_name) ==
    IF NameContains(agent_name, "Text Edit Agent") THEN "text_edit_agent"
    ELSE IF NameContains(agent_name, "Layout Edit Agent") THEN "layout_edit_agent"
    ELSE IF NameContains(agent_name, "Layout Mirror Agent") THEN "layout_mirror_agent"
    ELSE IF NameContains(agent_name, "Web Merge Agent") THEN "web_merge_agent"
    ELSE IF NameContains(agent_name, "Web Split Agent") THEN "web_split_agent"
    ELSE IF NameContains(agent_name, "Web Delete Agent") THEN "web_delete_agent"
    ELSE IF NameContains(agent_name, "Asset Transfer Agent") THEN "asset_transfer_agent"
    ELSE IF NameContains(agent_name, "Codex Fallback Agent") THEN "codex_fallback_agent"
    ELSE ""

\* the router has just chosen where the current Step goes
Routed == pc \in AgentNodes \cup {"finalize_task"}

\* C18: dispatch by Agent identifier is exact and closed: once the router
\* has routed the current Step, control is at the collaborator registered
\* for the Step's Agent identifier, never at Finalize; and a turn that
\* ended in Finalize with status SUCCESS has dispatched every Step up to
\* the current one, none was skipped.
C18_DispatchExactAndClosed ==
    /\ Routed =>
          /\ state.current_step_index \in 0..(Len(state.steps) - 1)
          /\ pc = Collaborator(LStrip(state.steps[state.current_step_index + 1].agent))
    /\ (TurnEnded /\ outcome = "finalize_task" /\ state.status = "SUCCESS") =>
          dispatched = [i \in 1..(state.current_step_index + 1) |-> i - 1]

\* an Agent sub-workflow hands the Session back to the router
AgentReturns == pc \in AgentNodes /\ outcome' # "raised"

\* C19: whenever an Agent returns control to the router, the status of the
\* Step it was dispatched for is SUCCESS or FAILURE, never PENDING or
\* IN_PROGRESS, and the status of no other Step has changed.
C19_AgentSetsOwnStepStatus ==
    [][AgentReturns =>
          /\ Len(state'.steps) = Len(state.steps)
          /\ \A i \in 1..Len(state.steps) :
                IF i = state.current_step_index + 1
                THEN state'.steps[i].status \in {"SUCCESS", "FAILURE"}
                ELSE state'.steps[i].status = state.steps[i].status]_vars

\* the Planner node starts on a Session: the plan it holds is being replaced
PlannerReplaces == pc = "planner" /\ pc' = "planner_call"

\* the Planner node has produced the new plan
PlannerProduces == pc = "planner_finish"

\* a re-plan returned modified = true
ReplanModifies ==
    pc = "handle_plan_response" /\ outcome' # "raised" /\ parsed_response'.modified

Holders == {t \in DOMAIN tasks : tasks[t].at = "returned" /\ tasks[t].got # 0}

\* C23: at most one manager instance is ever constructed per process and
\* every caller of get_git_manager that receives an instance receives that
\* same one, also when the first uses overlap in time.
C23_OneManagerInstance ==
    /\ Cardinality(instances.made) <= 1
    /\ \A t, u \in Holders : tasks[t].got = tasks[u].got

\* Sessions inside the git section of their Finalize
InGitSection == {t \in DOMAIN tasks : tasks[t].at \notin {"agent", "add", "done"}}

\* C24: the git operations of Sessions that finalize together are not
\* mutually excluded: while one Session is inside its git section, between
\* two of its subprocesses, every other Session that has not finished can
\* run its next git subprocess.
C24_FinalizeNotMutuallyExcluded ==
    \A t \in DOMAIN tasks :
       (tasks[t].at \notin {"agent", "done"} /\ InGitSection \ {t} # {}) =>
          ENABLED RaceStep(t)

\* a Session's commit holds the changes the Agent of another Session wrote,
\* that Session not having committed, and its forced checkout ran between
\* the other Session's staging and its commit
C24_Witness ==
    \E t \in DOMAIN tasks, u \in DOMAIN tasks :
       /\ t # u
       /\ tasks[t].made # 0
       /\ tasks[u].made = 0
       /\ HasEdits(repo.commits[tasks[t].made].tree, u)
       /\ u \in tasks[t].over

(***************************************************************************)
(* C25: what a dispatched Step keeps.                                      *)
(***************************************************************************)
\* positions (1-based) of the Steps handed to an Agent in the running turn
DispatchedSteps ==
    {i \in 1..Len(state.steps) : \E k \in 1..Len(dispatched) : dispatched[k] = i - 1}

KeepsAllButStatus(s, t) == t = [s EXCEPT !.status = t.status]

KeepsAllButStatusAndEdits(s, t) ==
    t = [s EXCEPT !.status = t.status, !.text_edits = t.text_edits]

\* the turn goes on with the Steps it has dispatched so far
SameTurn == dispatched # << >> /\ dispatched' # << >>

PushedOnWorkingBranch(r, c) ==
    \E i \in 1..Len(WorkingBranches) :
       /\ r.origin[WorkingBranches[i]] # 0
       /\ IsAncestor(r, c, r.origin[WorkingBranches[i]])

\* C26 as stated: whenever the last_published tag exists, it points at a
\* commit that has been pushed to origin on the working branch.
C26_TagPointsAtPushedCommit ==
    repo.tag # 0 => PushedOnWorkingBranch(repo, repo.tag)

\* the request pushed branch b and then tagged, both without failure
PushedThenTagged(log, b) ==
    \E i, j \in 1..Len(log) :
       /\ i < j
       /\ log[i].op = "safe_push" /\ log[i].ok /\ log[i].arg = b
       /\ log[j].op = "tag_last_published_commit" /\ log[j].ok

\* C26: the start-up initialisation puts the tag on the commit HEAD is at
\* without pushing anything; afterwards the tag is moved only by a publish
\* whose push of a branch succeeded before, and the commit it is moved to
\* is then on origin on that branch.
C26_TagMovedAfterPushExceptAtStartup ==
    /\ repo.tag # 0 => repo.tag = 1 /\ ~PushedOnWorkingBranch(repo, repo.tag)
    /\ [][repo'.tag # repo.tag =>
             /\ reply'.request = "publish"
             /\ \E b \in BranchNames :
                   /\ PushedThenTagged(calls', b)
                   /\ repo'.origin[b] # 0
                   /\ IsAncestor(repo', repo'.tag, repo'.origin[b])]_vars

\* a publish has moved the tag from the start-up commit to a pushed commit
C26_Witness ==
    /\ manager.true_branch_name # ""
    /\ reply.request = "publish"
    /\ repo.tag > 1
    /\ PushedOnWorkingBranch(repo, repo.tag)
    /\ PushedThenTagged(calls, manager.true_branch_name)

(***************************************************************************)
(* C27: a publish with nothing new.                                        *)
(***************************************************************************)
\* the work tree and the index hold what HEAD holds, and the commits since
\* the tag (or all of HEAD's, without a tag) carry no edit: they are the
\* empty baseline commits of first_commit or were there before start-up
NothingNew(r) ==
    /\ r.worktree = TreeOf(r, r.head.commit)
    /\ r.index = r.worktree
    /\ \A c \in 1..Len(r.commits) :
          (IsAncestor(r, c, r.head.commit) /\ ~IsAncestor(r, c, r.tag))
             => r.commits[c].via \in {"first_commit", "seed"}

\* C27: a publish request made when the working tree has no changes and no
\* edit has been committed since the previous successful publish or since
\* start-up returns not-published and leaves the repository, origin, the
\* tag and the pull requests as they were.
C27_PublishWithNothingNewIsNoOp ==
    (manager.set /\ repo.is_repo /\ NothingNew(repo)) =>
       \A w \in {World(repo, {})} :
       \A published \in {PublishChangesHandler(manager, w)} :
          /\ published.status = "not-published"
          /\ Repo(published.w) = repo

(***************************************************************************)
(* C28: after the last Step.                                               *)
(***************************************************************************)
\* the turn dispatched the last Step of its plan and its Agent returned
LastStepExecuted ==
    /\ TurnEnded
    /\ outcome # "raised"
    /\ dispatched # << >>
    /\ dispatched[Len(dispatched)] = Len(state.steps) - 1

\* a Step is handed to an Agent
Dispatches == pc = "execute_step" /\ Len(dispatched') > Len(dispatched)

\* C28: once the last Step of an accepted plan has been executed in a turn,
\* plan_shown_to_user is false in the Session the turn leaves and saves, so
\* the next message is routed to the Planner; a Step whose status is SUCCESS
\* is never dispatched again.
C28_ExecutedPlanIsNotRunAgain ==
    /\ [](LastStepExecuted =>
             /\ ~state.plan_shown_to_user
             /\ ~saved_state.plan_shown_to_user
             /\ RouteUserMessage(saved_state.plan_shown_to_user) = "planner")
    /\ [][Dispatches =>
             state.steps[state.current_step_index + 2].status # "SUCCESS"]_vars

(***************************************************************************)
(* C29: Finalize and the Agents' uncommitted edits.                        *)
(***************************************************************************)
\* commit_changes returned true: a commit was made
CommitMade(log) ==
    \E i \in 1..Len(log) : log[i].op = "commit_changes" /\ log[i].ok /\ log[i].ret

\* C29: Finalize never discards edits that Agents wrote to the working
\* tree: when commit_changes failed or committed nothing, the working-tree
\* files are afterwards exactly as the Agents left them.
C29_FinalizeKeepsUncommittedEdits ==
    [][(pc = "finalize_task" /\ ~CommitMade(calls')) =>
          repo'.worktree = repo.worktree]_vars

(***************************************************************************)
(* Finalize followed by publish.  The chat turn is taken by what it does   *)
(* to the repository: its Agents rewrite files (EditFiles) and its         *)
(* Finalize node awaits the git helper; the publish endpoint is served     *)
(* between turns.  The manager is the one the lifespan start-up left, or   *)
(* the one the provider constructs at the first use when start-up left     *)
(* none.                                                                   *)
(***************************************************************************)
\* actions.py:502-545  the git helper awaited by finalize_task_execution
FinalizeRequest ==
    /\ pc = "idle"
    /\ Len(repo.commits) + 1 <= MaxCommits
    /\ \E F \in RequestFaultSets(FinalizeSubprocesses) :
       \E w \in {World(repo, F)} : \E g \in {FinalizeGitOperations(manager, w)} :
          Answered("finalize", "", [m |-> g.m, w |-> g.w, status |-> ""])

NextFinalizePublish ==
    \/ EditFiles
    \/ FinalizeRequest
    \/ PublishChanges

SpecFinalizePublish == InitPublish /\ [][NextFinalizePublish]_vars

\* Finalize has just committed edits and left HEAD detached at that commit
FinalizeLeftHeadDetached ==
    /\ reply.request = "finalize"
    /\ CommitMade(calls)
    /\ repo.head.ref = "HEAD"
    /\ repo.head.commit = Len(repo.commits)
    /\ repo.commits[repo.head.commit].via = "commit_changes"

\* C30: whenever Finalize has committed edits and left HEAD detached at the
\* newest commit, a publish request without tool failures moves a branch to
\* that commit, pushes it and answers published, whichever way the manager
\* was obtained.
C30_PublishAfterFinalizePublishes ==
    FinalizeLeftHeadDetached =>
       \A w \in {World(repo, {})} :
       \A published \in {PublishChangesHandler(manager, w)} :
          /\ published.status = "published"
          /\ \E b \in BranchNames :
                /\ published.w.origin[b] = repo.head.commit
                /\ IsAncestor(published.w, repo.head.commit, published.w.branches[b])
====
